---- MODULE Spec2Model ----
(***************************************************************************)
(* Model of the minimal-cms-core backend: the Events and Gallery features  *)
(* (services, ownership-scoped repositories, storage client) as a state    *)
(* machine over the database tables and the storage bucket.  One action    *)
(* is one HTTP request: the handler runs on its own session, which get_db  *)
(* commits on clean exit and rolls back when the handler raises.           *)
(***************************************************************************)
EXTENDS Integers, Sequences, FiniteSets, TLC

VARIABLES events, albums, images, bucket, nextId, resp, users, hits, session, store,
          inflight

vars == <<events, albums, images, bucket, nextId, resp, users, hits, session, store,
          inflight>>

(***************************************************************************)
(* Bounds of the model.                                                    *)
(***************************************************************************)
MaxEvents == 2
MaxAlbums == 1
MaxImages == 2
\* rows created in all tables together
MaxRows == 3

Users == {"u1", "u2"}
\* datetime.now(timezone.utc) at the time of the requests
Now == 1
\* start_at values that are not in the past
Times == {1, 2}
\* a start_at value in the past
PastTimes == {0}
\* limit and offset values a client may send
PageSizes == {0, 1, 2}
\* the pages the requests of the specifications ask for, as <<limit, offset>>
Pages == {<<2, 0>>, <<1, 1>>, <<0, 0>>}
\* ids no row ever has (primary keys are handed out from 1)
AbsentIds == {0}

\* SQL NULL / Python None for string-valued columns
Null == <<>>

(***************************************************************************)
(* slugify: lower-case, runs of non-alphanumerics become one hyphen,       *)
(* leading and trailing hyphens are stripped.                              *)
(***************************************************************************)
Upper == {"G"}
Lowers == {"g", "i"}
DigitChar == <<"0", "1", "2", "3", "4", "5", "6", "7", "8", "9">>
DigitSet == {DigitChar[k] : k \in 1..10}

ToLower(c) == IF c = "G" THEN "g" ELSE c

IsAlnum(c) == c \in Upper \cup Lowers \cup DigitSet

RECURSIVE SlugAcc(_, _)
SlugAcc(text, acc) ==
    IF text = <<>> THEN acc
    ELSE LET c == Head(text) IN
         IF IsAlnum(c) THEN SlugAcc(Tail(text), Append(acc, ToLower(c)))
         ELSE IF acc # <<>> /\ acc[Len(acc)] # "-"
              THEN SlugAcc(Tail(text), Append(acc, "-"))
              ELSE SlugAcc(Tail(text), acc)

StripTail(s) == IF s # <<>> /\ s[Len(s)] = "-" THEN SubSeq(s, 1, Len(s) - 1) ELSE s

slugify(text) == StripTail(SlugAcc(text, <<>>))

\* str(counter) of the f-string in generate_unique_slug
RECURSIVE Decimal(_)
Decimal(n) == IF n < 10 THEN <<DigitChar[n + 1]>>
              ELSE Decimal(n \div 10) \o <<DigitChar[(n % 10) + 1]>>

\* titles a client may submit (each has at least 3 characters)
Titles == { <<"G", "i", "g">>, <<"g", "i", "g", " ", "1">> }


\* uploads a client may attach: a valid PNG and a file of an unsupported type
NoFile == [content_type |-> "none"]
Files == { [content_type |-> "image/png"], [content_type |-> "image/gif"] }
ALLOWED_IMAGE_TYPES == {"image/jpeg", "image/png", "image/webp"}

\* validate_image_file: TRUE when the file passes, FALSE when BadRequestError is raised
validate_image_file(file) == file.content_type \in ALLOWED_IMAGE_TYPES

Extension(file) == IF file.content_type = "image/png" THEN "png"
                   ELSE IF file.content_type = "image/gif" THEN "gif"
                   ELSE "bin"

\* SupabaseStorageClient.upload_image: the object key and the public URL it returns
FilePath(user_id, folder, slug, file) == <<user_id, folder, slug, Extension(file)>>
PublicUrl(file_path) == <<"public", "images">> \o file_path

\* SupabaseStorageClient.delete_image: remove(file_path); any failure is swallowed
StorageRemove(b, file_path, ok) == IF ok THEN b \ {file_path} ELSE b

(***************************************************************************)
(* Responses.  status is the HTTP status the error handler of main.py      *)
(* renders; an exception that is no BaseAppException leaves as 500.        *)
(***************************************************************************)
StatusOf(err) == CASE err = "NotFoundError" -> 404
                   [] err = "BadRequestError" -> 400
                   [] err = "ConflictError" -> 409
                   [] err = "UnauthorizedError" -> 401
                   [] err = "ForbiddenError" -> 403
                   [] err = "BadGatewayError" -> 502
                   [] OTHER -> 500

\* the errors app_exception_handler renders as the application error envelope
BaseAppExceptions == {"BaseAppException", "BadRequestError", "BadGatewayError",
                      "UnauthorizedError", "NotFoundError", "ForbiddenError",
                      "ConflictError"}

\* a handler that returns body with the route's status code
Ok(status, body) == [status |-> status, err |-> "none", body |-> body]

\* a handler that raises err
Raise(err) == [status |-> StatusOf(err), err |-> err, body |-> <<>>]

\* the state a handler works on: the tables as its session sees them, the
\* storage bucket, and the next primary key of each table
Cur == [events |-> events, albums |-> albums, images |-> images,
        bucket |-> bucket, nextId |-> nextId, users |-> users]

\* the error validate_image_file raises for a content type that is not allowed:
\* BadRequestError(message, "Allowed types: ..."), whose second positional
\* argument is status_code.  The status_code of this error is that string, no
\* HTTP status, so the envelope of app_exception_handler cannot be sent as a
\* response and the request ends as a server error
InvalidContentType == [status |-> 500, err |-> "BadRequestError", body |-> <<>>]

\* what a handler leaves behind: the session's flushed state and its response
Out(st, r) == [st |-> st, resp |-> r]

\* get_db without the rollback: what the session flushed is kept
get_db_keeps_flushed(out) == out.st

\* get_db: commit when the handler returns, roll back when it raises; the
\* bucket is no part of the transaction
get_db(out) == IF out.resp.err = "none" THEN out.st
               ELSE [Cur EXCEPT !.bucket = out.st.bucket]

\* the handler runs in its session and the response is sent
Respond(op, out) ==
    /\ events' = get_db(out).events
    /\ albums' = get_db(out).albums
    /\ images' = get_db(out).images
    /\ bucket' = get_db(out).bucket
    /\ nextId' = get_db(out).nextId
    /\ users' = get_db(out).users
    /\ resp' = [op |-> op, status |-> out.resp.status, err |-> out.resp.err,
                msg |-> IF "msg" \in DOMAIN out.resp THEN out.resp.msg ELSE <<>>]

\* one request the rate limiter lets through (the windows of the limiter are
\* followed by the requests of RateLimitSpec)
Request(op, out) ==
    /\ Respond(op, out)
    /\ UNCHANGED <<hits, session, store, inflight>>

(***************************************************************************)
(* BaseRepository / UserScopeRepository                                    *)
(***************************************************************************)
\* get_by_user_and_id with the owner filter left out
get_by_id_unscoped(table, user_id, item_id) == {r \in table : r.id = item_id}

\* get_by_user_and_id: the rows scalar_one_or_none() chooses from
get_by_user_and_id(table, user_id, item_id) ==
    {r \in table : r.user_id = user_id /\ r.id = item_id}

get_all_by_user_id(table, user_id) == {r \in table : r.user_id = user_id}

\* get_by_slug: user_id = "none" is the unscoped call
get_by_slug(table, slug, user_id) ==
    {r \in table : r.slug = slug /\ (user_id # "none" => r.user_id = user_id)}

\* the loop of generate_unique_slug: probe, then append the counter
RECURSIVE SlugLoop(_, _, _, _, _)
SlugLoop(table, user_id, base_slug, slug, counter) ==
    IF get_by_slug(table, slug, user_id) = {} THEN slug
    ELSE SlugLoop(table, user_id, base_slug,
                  base_slug \o <<"-">> \o Decimal(counter), counter + 1)

\* generate_unique_slug that starts with the suffix -1 and never tries the base
generate_suffixed_slug(table, base_text, user_id) ==
    SlugLoop(table, user_id, slugify(base_text),
             slugify(base_text) \o <<"-">> \o Decimal(1), 2)

generate_unique_slug(table, base_text, user_id) ==
    SlugLoop(table, user_id, slugify(base_text), slugify(base_text), 1)

\* the calls of get_by_slug the loop of generate_unique_slug makes
RECURSIVE ProbeLoop(_, _, _, _, _)
ProbeLoop(table, user_id, base_slug, slug, counter) ==
    IF get_by_slug(table, slug, user_id) = {} THEN 1
    ELSE 1 + ProbeLoop(table, user_id, base_slug,
                       base_slug \o <<"-">> \o Decimal(counter), counter + 1)

\* a loop that asks for every candidate twice
slug_probes_doubled(table, base_text, user_id) ==
    2 * ProbeLoop(table, user_id, slugify(base_text), slugify(base_text), 1)

\* the number of get_by_slug calls of generate_unique_slug(base_text, user_id)
slug_probes(table, base_text, user_id) ==
    ProbeLoop(table, user_id, slugify(base_text), slugify(base_text), 1)

\* the unique index on slug: the flush of create raises IntegrityError
\* a slug column without the unique index
slug_not_indexed(table, slug) == FALSE

SlugTaken(table, slug) == \E r \in table : r.slug = slug

\* an update that stores None for a key supplied as None
UpdateField_null_clears(db_obj, data, key) ==
    IF key \in DOMAIN data
    THEN IF data[key] = {} THEN Null ELSE CHOOSE v \in data[key] : TRUE
    ELSE db_obj[key]

\* BaseRepository.update: a key is applied when present and its value is not None.
\* data maps each supplied key to {} (None) or {value}.
UpdateField(db_obj, data, key) ==
    IF key \in DOMAIN data /\ data[key] # {}
    THEN CHOOSE v \in data[key] : TRUE
    ELSE db_obj[key]

\* update with an omitted is_published read as the schema default False
update_unset_as_default(db_obj, data) ==
    [key \in DOMAIN db_obj |->
        IF key = "is_published" /\ key \notin DOMAIN data THEN FALSE
        ELSE UpdateField(db_obj, data, key)]

update(db_obj, data) == [key \in DOMAIN db_obj |-> UpdateField(db_obj, data, key)]

\* ids a client may send: those of the rows present, and one of no row
ProbeIds(table) == {r.id : r \in table} \cup AbsentIds

\* a list query without ORDER BY: the database returns the rows in some order,
\* then LIMIT and OFFSET cut the page
RECURSIVE Orders(_)
Orders(S) == IF S = {} THEN {<<>>}
             ELSE UNION { {<<r>> \o o : o \in Orders(S \ {r})} : r \in S }

Page(order, limit, offset) == SubSeq(order, offset + 1,
                                     IF offset + limit < Len(order) THEN offset + limit
                                     ELSE Len(order))

(***************************************************************************)
(* Events feature                                                          *)
(***************************************************************************)
\* EventCreate bodies (title, start_at, is_published; all times are future)
EventCreates == [title : Titles, start_at : Times, is_published : BOOLEAN]

\* EventUpdate bodies after model_dump(exclude_unset=True): the keys present
\* map to {} for an explicit null and to {v} for a value
EventUpdates ==
    { <<>>,
      [title |-> {<<"g", "i", "g", " ", "1">>}],
      [is_published |-> {TRUE}],
      [is_published |-> {FALSE}, start_at |-> {2}],
      [start_at |-> {1}, title |-> {}],
      [title |-> {<<"G", "i", "g">>}, is_published |-> {}] }

\* EventCreate bodies with start_at in the past
PastEventCreates == [title : {<<"G", "i", "g">>}, start_at : PastTimes, is_published : {TRUE}]

\* the bodies of the requests that attach a cover file
CoverCreates == [title : Titles, start_at : {1}, is_published : {TRUE}]

\* a slug no row ever has
AbsentSlug == <<"x">>
EventSlugs == {e.slug : e \in events} \cup {AbsentSlug}

\* EventService.add_event (POST /events/)
add_event(u, file, data, upload_ok) ==
    LET slug == generate_unique_slug(events, data.title, u)
        file_path == FilePath(u, "Gallery", slug, file)
        image_url == IF file = NoFile THEN Null ELSE PublicUrl(file_path)
        row == [id |-> nextId.events, user_id |-> u, title |-> data.title,
                slug |-> slug, cover_image |-> image_url,
                start_at |-> data.start_at, is_published |-> data.is_published]
        uploaded == IF file = NoFile THEN Cur
                    ELSE [Cur EXCEPT !.bucket = @ \cup {file_path}]
    IN  IF file # NoFile /\ ~validate_image_file(file)
        THEN Out(Cur, InvalidContentType)
        ELSE IF file # NoFile /\ ~upload_ok
        THEN Out(Cur, Raise("StorageException"))
        ELSE IF SlugTaken(events, slug)
        THEN Out(uploaded, Raise("ConflictError"))
        ELSE Out([uploaded EXCEPT !.events = @ \cup {row}, !.nextId.events = @ + 1],
                 Ok(201, <<row>>))

\* validate_datetime of EventCreate.start_at: TRUE when the value passes,
\* FALSE when ValueError is raised (a pydantic ValidationError of the model)
validate_datetime(v) == ~(v < Now)

\* the route handler create_event: EventCreate.model_validate_json(data) in
\* the handler body, then add_event
create_event(u, file, data, upload_ok) ==
    IF ~validate_datetime(data.start_at) THEN Out(Cur, Raise("ValidationError"))
    ELSE add_event(u, file, data, upload_ok)

\* EventService.get_event (GET /events/{event_id})
get_event(u, event_id) ==
    LET found == get_by_user_and_id(events, u, event_id)
    IN  IF found = {} THEN Out(Cur, Raise("NotFoundError"))
        ELSE Out(Cur, Ok(200, <<CHOOSE e \in found : TRUE>>))

\* EventService.get_user_events (GET /events/): one outcome for each order
\* in which the database may return the rows
get_user_events(u) ==
    {Out(Cur, Ok(200, order)) : order \in Orders(get_all_by_user_id(events, u))}

\* the fields of EventUpdate
EventUpdateFields ==
    {"title", "summary", "content", "start_at", "end_at", "location",
     "location_url", "is_published"}

\* EventUpdate with the fields it does not declare kept (extra = "allow")
EventUpdate_extra_allowed(body) == body

\* data: EventUpdate parsed from the JSON body, then
\* data.model_dump(exclude_unset=True): the declared fields the body
\* supplies; a field the schema does not declare is ignored
EventUpdate(body) ==
    [key \in (DOMAIN body) \cap EventUpdateFields |-> body[key]]

\* JSON bodies of PATCH /events/{event_id}: changed titles, nulls, and keys
\* that EventUpdate does not declare
EventPatchBodies ==
    { [title |-> {<<"g", "i", "g", " ", "1">>}],
      [title |-> {<<"G", "i", "g">>}, slug |-> {<<"x">>}],
      [slug |-> {<<"g", "i", "g", "-", "1">>}, user_id |-> {"u2"}],
      [id |-> {2}, is_published |-> {FALSE}],
      [title |-> {}, is_published |-> {}],
      [title |-> {<<"g", "i", "g", " ", "1">>}, is_published |-> {}],
      [location_url |-> {}, is_published |-> {TRUE}] }

\* EventService.update_event (PATCH /events/{event_id})
update_event(u, event_id, data) ==
    LET got == get_event(u, event_id).resp
    IN  IF got.err # "none" THEN Out(Cur, got)
        ELSE LET event == got.body[1]
                 updated == update(event, data)
             IN  Out([Cur EXCEPT !.events = (@ \ {event}) \cup {updated}],
                     Ok(200, <<updated>>))

\* delete_event with the storage failure raised instead of swallowed
delete_event_storage_raises(u, event_id, storage_ok) ==
    LET found == {e \in events : e.user_id = u /\ e.id = event_id}
    IN  IF found = {} THEN Out(Cur, Raise("NotFoundError"))
        ELSE IF ~storage_ok THEN Out(Cur, Raise("BaseAppException"))
        ELSE Out([Cur EXCEPT !.events = @ \ found], Ok(204, <<>>))

\* EventService.delete_event (DELETE /events/{event_id})
delete_event(u, event_id, storage_ok) ==
    LET got == get_event(u, event_id).resp
    IN  IF got.err # "none" THEN Out(Cur, got)
        ELSE LET event == got.body[1]
             IN  Out([Cur EXCEPT !.bucket = StorageRemove(@, event.cover_image, storage_ok),
                                 !.events = @ \ {event}],
                     Ok(204, <<>>))

\* get_published_by_user with the ORDER BY left out
get_published_unordered(user_id, limit, offset) ==
    {Page(o, limit, offset) :
        o \in Orders({e \in events : e.user_id = user_id /\ e.is_published})}

\* EventsRepository.get_published_by_user: ORDER BY start_at (ties in any
\* order), then LIMIT and OFFSET
get_published_by_user(user_id, limit, offset) ==
    LET published == {e \in events : e.user_id = user_id /\ e.is_published}
        sorted == {o \in Orders(published) :
                     \A i \in 1..Len(o) : \A j \in i..Len(o) :
                        o[i].start_at <= o[j].start_at}
    IN  {Page(o, limit, offset) : o \in sorted}

\* EventService.get_public_events (GET /events/public)
get_public_events(u, limit, offset) ==
    {Out(Cur, Ok(200, page)) : page \in get_published_by_user(u, limit, offset)}

\* EventsRepository.get_published_event_by_slug
get_published_event_by_slug(user_id, slug) ==
    {e \in events : e.user_id = user_id /\ e.slug = slug /\ e.is_published}

\* EventService.get_public_event_by_slug (GET /events/public/{slug})
get_public_event_by_slug(u, slug) ==
    LET found == get_published_event_by_slug(u, slug)
    IN  IF found = {} THEN Out(Cur, Raise("NotFoundError"))
        ELSE Out(Cur, Ok(200, <<CHOOSE e \in found : TRUE>>))

(***************************************************************************)
(* Gallery feature                                                         *)
(***************************************************************************)
AlbumCreates == [title : Titles, is_published : BOOLEAN]

\* AlbumUpdate bodies after model_dump(exclude_unset=True)
AlbumUpdates ==
    { <<>>,
      [is_published |-> {TRUE}],
      [is_published |-> {FALSE}],
      [title |-> {<<"g", "i", "g", " ", "1">>}],
      [title |-> {}, is_published |-> {TRUE}] }

AlbumSlugs == {a.slug : a \in albums} \cup {AbsentSlug}
ImageSlugs == {img.slug : img \in images} \cup {AbsentSlug}

\* the files of one upload request, in order: one or two files
UploadBatches == {<<f>> : f \in Files} \cup {<<f, g>> : f \in Files, g \in Files}
\* the batches the requests of the gallery specification send
Png == [content_type |-> "image/png"]
Gif == [content_type |-> "image/gif"]
SentBatches == {<<Png>>, <<Png, Png>>, <<Png, Gif>>}

\* selectinload(Album.images): the album with the images that reference it
WithImages(album) ==
    [album |-> album, images |-> {img \in images : img.album_id = album.id}]

\* AlbumRepository.get_album_with_images
get_album_with_images(user_id, album_id) ==
    {WithImages(a) : a \in get_by_user_and_id(albums, user_id, album_id)}

\* AlbumService.get_album (GET /album/{album_id})
get_album(u, album_id) ==
    LET found == get_album_with_images(u, album_id)
    IN  IF found = {} THEN Out(Cur, Raise("NotFoundError"))
        ELSE Out(Cur, Ok(200, <<CHOOSE a \in found : TRUE>>))

\* AlbumService.get_user_albums (GET /album/)
get_user_albums(u) ==
    {Out(Cur, Ok(200, [k \in DOMAIN order |-> WithImages(order[k])])) :
        order \in Orders(get_all_by_user_id(albums, u))}

\* create_album whose slug probe is scoped to the user
create_album_scoped(u, data) ==
    LET slug == generate_unique_slug(albums, data.title, u)
        row == [id |-> nextId.albums, user_id |-> u, title |-> data.title,
                slug |-> slug, cover_url |-> Null, is_published |-> data.is_published]
    IN  IF SlugTaken(albums, slug) THEN Out(Cur, Raise("ConflictError"))
        ELSE Out([Cur EXCEPT !.albums = @ \cup {row}, !.nextId.albums = @ + 1],
                 Ok(201, <<[album |-> row, images |-> {}]>>))

\* AlbumService.create_album (POST /album/)
create_album(u, data) ==
    LET slug == generate_unique_slug(albums, data.title, "none")
        row == [id |-> nextId.albums, user_id |-> u, title |-> data.title,
                slug |-> slug, cover_url |-> Null, is_published |-> data.is_published]
    IN  IF SlugTaken(albums, slug) THEN Out(Cur, Raise("ConflictError"))
        ELSE Out([Cur EXCEPT !.albums = @ \cup {row}, !.nextId.albums = @ + 1],
                 Ok(201, <<[album |-> row, images |-> {}]>>))

\* AlbumService.update_album (PATCH /album/{album_id})
update_album(u, album_id, data) ==
    LET got == get_album(u, album_id).resp
    IN  IF got.err # "none" THEN Out(Cur, got)
        ELSE LET album == got.body[1].album
                 updated == update(album, data)
             IN  Out([Cur EXCEPT !.albums = (@ \ {album}) \cup {updated}],
                     Ok(200, <<[album |-> updated, images |-> got.body[1].images]>>))

\* the delete of an Album without the cascade to its images
delete_without_cascade(st, album) == [st EXCEPT !.albums = @ \ {album}]

\* BaseRepository.delete of an Album: relationship cascade "all, delete-orphan"
\* and ondelete="CASCADE" of images.album_id remove the album's images
delete_cascade(st, album) ==
    [st EXCEPT !.albums = @ \ {album},
               !.images = {img \in @ : img.album_id # album.id}]

\* AlbumService.delete_album (DELETE /album/{album_id})
delete_album(u, album_id) ==
    LET got == get_album(u, album_id).resp
    IN  IF got.err # "none" THEN Out(Cur, got)
        ELSE Out(delete_cascade(Cur, got.body[1].album), Ok(204, <<>>))

\* ImageService._process_single_image on the session state st: validate, slug,
\* upload, create
process_single_image(st, u, album, file, upload_ok) ==
    LET slug == generate_unique_slug(st.images, album.title, "none")
        file_path == FilePath(u, "Gallery", slug, file)
        row == [id |-> st.nextId.images, user_id |-> u, album_id |-> album.id,
                image_url |-> PublicUrl(file_path), slug |-> slug]
        uploaded == [st EXCEPT !.bucket = @ \cup {file_path}]
    IN  IF ~validate_image_file(file) THEN Out(st, InvalidContentType)
        ELSE IF ~upload_ok THEN Out(st, Raise("BaseAppException"))
        ELSE IF SlugTaken(st.images, slug) THEN Out(uploaded, Raise("ConflictError"))
        ELSE Out([uploaded EXCEPT !.images = @ \cup {row}, !.nextId.images = @ + 1],
                 Ok(201, <<row>>))

\* the cover rule without the test for an existing cover
set_cover_always(st, album, i, image_url) ==
    IF i = 0
    THEN [st EXCEPT !.albums = {IF a.id = album.id THEN [a EXCEPT !.cover_url = image_url]
                                ELSE a : a \in @}]
    ELSE st

\* the cover rule of upload_images for file number i (from 0)
set_cover(st, album, i, image_url) ==
    IF i = 0 /\ album.cover_url = Null
    THEN [st EXCEPT !.albums = (@ \ {album}) \cup {update(album, [cover_url |-> {image_url}])}]
    ELSE st

\* the loop of upload_images from file number i on; fail_at is the number
\* (from 1) of the file whose storage upload fails, 0 when none does
RECURSIVE upload_loop(_, _, _, _, _, _, _)
upload_loop(st, u, album, files, i, fail_at, uploaded_images) ==
    IF i >= Len(files) THEN Out(st, Ok(201, uploaded_images))
    ELSE LET one == process_single_image(st, u, album, files[i + 1], fail_at # i + 1)
         IN  IF one.resp.err # "none" THEN one
             ELSE upload_loop(set_cover(one.st, album, i, one.resp.body[1].image_url),
                              u, album, files, i + 1, fail_at,
                              Append(uploaded_images, one.resp.body[1]))

\* upload_images that looks the album up by id alone
upload_images_any_owner(u, album_id, files, fail_at) ==
    LET found == get_by_id_unscoped(albums, u, album_id)
    IN  IF found = {} THEN Out(Cur, Raise("NotFoundError"))
        ELSE upload_loop(Cur, u, CHOOSE a \in found : TRUE, files, 0, fail_at, <<>>)

\* ImageService.upload_images (POST /image/{album_id})
upload_images(u, album_id, files, fail_at) ==
    LET found == get_by_user_and_id(albums, u, album_id)
    IN  IF found = {} THEN Out(Cur, Raise("NotFoundError"))
        ELSE upload_loop(Cur, u, CHOOSE a \in found : TRUE, files, 0, fail_at, <<>>)

\* ImageService.get_user_images (GET /image/)
get_user_images(u, limit, offset) ==
    {Out(Cur, Ok(200, Page(order, limit, offset))) :
        order \in Orders(get_all_by_user_id(images, u))}

\* ImageService.get_image_by_slug
get_image_by_slug(u, slug) ==
    LET found == get_by_slug(images, slug, u)
    IN  IF found = {} THEN Out(Cur, Raise("NotFoundError"))
        ELSE Out(Cur, Ok(200, <<CHOOSE img \in found : TRUE>>))

\* the join without the filter on Album.is_published
JoinAnyAlbum(user_id) ==
    {img \in images : /\ img.user_id = user_id
                      /\ \E a \in albums : a.id = img.album_id}

\* the join of ImageRepository.get_public_images / get_public_image_by_slug
PublishedJoin(user_id) ==
    {img \in images : /\ img.user_id = user_id
                      /\ \E a \in albums : a.id = img.album_id /\ a.is_published}

\* ImageService.get_public_images (GET /image/public)
get_public_images(u, limit, offset) ==
    {Out(Cur, Ok(200, Page(order, limit, offset))) : order \in Orders(PublishedJoin(u))}

\* ImageService.get_public_image_by_slug (GET /image/public/{slug})
get_public_image_by_slug(u, slug) ==
    LET found == {img \in PublishedJoin(u) : img.slug = slug}
    IN  IF found = {} THEN Out(Cur, Raise("NotFoundError"))
        ELSE Out(Cur, Ok(200, <<CHOOSE img \in found : TRUE>>))

\* GET /album/public/{slug}, GET /album/public and DELETE /image/{image_id}:
\* the routers call service.get_public_album_by_slug, service.get_all_public_album
\* and service.delete_image, which AlbumService and ImageService do not define;
\* the attribute lookup raises AttributeError
get_public_album(u, slug) == Out(Cur, Raise("AttributeError"))

get_all_public_albums(u) == Out(Cur, Raise("AttributeError"))

delete_image(u, image_id) == Out(Cur, Raise("AttributeError"))

\* rows created so far
Created == (nextId.events - 1) + (nextId.albums - 1) + (nextId.images - 1)

\* the requests of the events router
AddEvent(u, file, data, upload_ok) ==
    /\ nextId.events <= MaxEvents
    /\ Created < MaxRows
    /\ Request("add_event", create_event(u, file, data, upload_ok))

GetEvent(u, event_id) == Request("get_event", get_event(u, event_id))

GetUserEvents(u) == \E out \in get_user_events(u) : Request("get_user_events", out)

UpdateEvent(u, event_id, data) ==
    Request("update_event", update_event(u, event_id, data))

\* PATCH /events/{event_id} with the body as the client sent it
PatchEvent(u, event_id, body) ==
    Request("update_event", update_event(u, event_id, EventUpdate(body)))

DeleteEvent(u, event_id, storage_ok) ==
    Request("delete_event", delete_event(u, event_id, storage_ok))

GetPublicEvents(u, limit, offset) ==
    \E out \in get_public_events(u, limit, offset) : Request("get_public_events", out)

GetPublicEventBySlug(u, slug) ==
    Request("get_public_event_by_slug", get_public_event_by_slug(u, slug))

\* the requests of the gallery router
CreateAlbum(u, data) ==
    /\ nextId.albums <= MaxAlbums
    /\ Created < MaxRows
    /\ Request("create_album", create_album(u, data))

\* POST /album/ in the specification of the album slugs, which follows one
\* album more than the other specifications
CreateTitledAlbum(u, data) ==
    /\ nextId.albums <= MaxAlbums + 1
    /\ Created < MaxRows
    /\ Request("create_album", create_album(u, data))

GetAlbum(u, album_id) == Request("get_album", get_album(u, album_id))

GetAlbums(u) == \E out \in get_user_albums(u) : Request("get_user_albums", out)

UpdateAlbum(u, album_id, data) ==
    Request("update_album", update_album(u, album_id, data))

DeleteAlbum(u, album_id) == Request("delete_album", delete_album(u, album_id))

UploadImages(u, album_id, files, fail_at) ==
    /\ nextId.images + Len(files) - 1 <= MaxImages
    /\ Created + Len(files) <= MaxRows
    /\ Request("upload_images", upload_images(u, album_id, files, fail_at))

GetUserImages(u, limit, offset) ==
    \E out \in get_user_images(u, limit, offset) : Request("get_user_images", out)

ListPublicImages(u, limit, offset) ==
    \E out \in get_public_images(u, limit, offset) : Request("get_public_images", out)

GetPublicImage(u, slug) ==
    Request("get_public_image_by_slug", get_public_image_by_slug(u, slug))

GetPublicAlbum(u, slug) == Request("get_public_album", get_public_album(u, slug))

GetAllPublicAlbums(u) == Request("get_all_public_albums", get_all_public_albums(u))

DeleteImage(u, image_id) == Request("delete_image", delete_image(u, image_id))

(***************************************************************************)
(* Users feature                                                           *)
(***************************************************************************)
\* subject ids the identity service hands out, and the addresses and names
\* accounts are registered with
Subjects == {"s1", "s2"}
Emails == {"a@x", "b@x"}
Usernames == {"ann", "bob"}

\* the value of a keyword argument: {} is None, {v} is v
Value(data, key) == CHOOSE v \in data[key] : TRUE
Given(data, key) == key \in DOMAIN data /\ data[key] # {}

\* UserRepository.get_by_supabase_id: the rows scalar_one_or_none() chooses from
get_by_supabase_id(tbl, supabase_user_id) ==
    {r \in tbl : r.supabase_user_id = supabase_user_id}

\* the unique indexes of the users table, as the flush of a row checks them
UserUnique(tbl, row) ==
    \A r \in tbl : r.id # row.id =>
        /\ r.supabase_user_id # row.supabase_user_id
        /\ r.email # row.email
        /\ r.username # row.username

\* the result of a repository call on the users table: the table as the
\* session sees it afterwards, the row returned, the error raised
UserResult(tbl, row, err) == [users |-> tbl, row |-> row, err |-> err]

\* BaseRepository.create on User: supabase_user_id, email and username are
\* NOT NULL without a default, so a row without one of them fails the flush,
\* as does a row that repeats a unique value; IntegrityError is re-raised as
\* IntegrityConstraintError.  The primary key is a fresh uuid4.
create_user(tbl, data) ==
    IF \E c \in {"supabase_user_id", "email", "username"} : ~Given(data, c)
    THEN UserResult(tbl, {}, "IntegrityConstraintError")
    ELSE LET row == [id |-> Cardinality(tbl) + 1,
                     supabase_user_id |-> Value(data, "supabase_user_id"),
                     email |-> Value(data, "email"),
                     username |-> Value(data, "username"),
                     is_active |-> TRUE,
                     is_email_verified |->
                         IF Given(data, "is_email_verified")
                         THEN Value(data, "is_email_verified") ELSE FALSE]
         IN  IF UserUnique(tbl, row) THEN UserResult(tbl \cup {row}, {row}, "none")
             ELSE UserResult(tbl, {}, "IntegrityConstraintError")

\* BaseRepository.update on User: the keys that are given and not None are
\* set, then the flush checks the unique indexes
update_user(tbl, user, data) ==
    LET row == update(user, data)
    IN  IF UserUnique(tbl, row)
        THEN UserResult((tbl \ {user}) \cup {row}, {row}, "none")
        ELSE UserResult(tbl, {}, "IntegrityConstraintError")

\* UserRepository.sync_from_supabase(supabase_user_id, email, **additional_data)
sync_from_supabase(tbl, supabase_user_id, email, additional_data) ==
    LET found == get_by_supabase_id(tbl, supabase_user_id)
    IN  IF found # {}
        THEN update_user(tbl, CHOOSE r \in found : TRUE,
                         [email |-> email] @@ additional_data)
        ELSE create_user(tbl, [supabase_user_id |-> {supabase_user_id},
                               email |-> email] @@ additional_data)

(***************************************************************************)
(* Auth feature: the identity service (Supabase) and AuthService           *)
(***************************************************************************)
\* messages of the AuthApiError the identity service answers with
UpstreamMessages == { <<"U", "s", "e", "r", " ", "a", "l", "r", "e", "a", "d", "y", " ", "r", "e", "g", "i", "s", "t", "e", "r", "e", "d">>,
                      <<"P", "a", "s", "s", "w", "o", "r", "d", " ", "t", "o", "o", " ", "w", "e", "a", "k">> }

\* str.lower() on the characters of these messages
lower(s) == [k \in DOMAIN s |-> IF s[k] = "U" THEN "u"
                                ELSE IF s[k] = "P" THEN "p" ELSE s[k]]

\* sub in s, for strings
Contains(s, sub) ==
    \E k \in 1..(Len(s) - Len(sub) + 1) : SubSeq(s, k, k + Len(sub) - 1) = sub

\* what a call of the identity service may end with: an AuthApiError with a
\* message, an exception of the transport (no AuthApiError), or a response
\* with or without a user and with or without a session
UpstreamUsers(email) ==
    { [id |-> s, email |-> email, email_confirmed |-> c] : s \in Subjects, c \in BOOLEAN }

UpstreamOutcomes(email) ==
    { [kind |-> "AuthApiError", message |-> m, user |-> {}, session |-> FALSE] :
          m \in UpstreamMessages }
    \cup { [kind |-> "ConnectError", message |-> <<>>, user |-> {}, session |-> FALSE] }
    \cup { [kind |-> "response", message |-> <<>>, user |-> u, session |-> b] :
          u \in {{}} \cup { {x} : x \in UpstreamUsers(email) }, b \in BOOLEAN }

\* a handler that raises err with a message
RaiseMsg(err, msg) == [status |-> StatusOf(err), err |-> err, body |-> <<>>, msg |-> msg]

SignUpRequests == [email : Emails, username : Usernames]
SignInRequests == [email : Emails]

\* AuthService.sign_up
sign_up(data, up) ==
    IF up.kind = "AuthApiError"
    THEN IF Contains(lower(up.message), <<"a", "l", "r", "e", "a", "d", "y", " ", "r", "e", "g", "i", "s", "t", "e", "r", "e", "d">>)
         THEN Out(Cur, RaiseMsg("BadRequestError", <<"User already registered. Please sign in or request a new verification email.">>))
         ELSE Out(Cur, RaiseMsg("BadRequestError", <<"Sign up failed: ", up.message>>))
    ELSE IF up.kind # "response"
    THEN \* no except clause of sign_up matches: the exception leaves as it is
         Out(Cur, RaiseMsg(up.kind, <<>>))
    ELSE IF up.user = {}
    THEN Out(Cur, RaiseMsg("BadRequestError", <<"Failed to create user">>))
    ELSE LET user == CHOOSE x \in up.user : TRUE
             synced == sync_from_supabase(users, user.id, {data.email},
                           [username |-> {data.username}, is_email_verified |-> {FALSE}])
         IN  IF synced.err # "none"
             THEN Out(Cur, RaiseMsg(synced.err, <<>>))
             ELSE Out([Cur EXCEPT !.users = synced.users],
                      Ok(201, [user_id |-> user.id, email |-> user.email,
                               requires_email_confirmation |-> ~up.session]))

\* the messages of the UnauthorizedError of sign_in
VerifyEmail == <<"Please verify your email before signing in. Check your inbox for the confirmation link.">>
InvalidCredentials == <<"Invalid credentials">>

\* the body of the try block of sign_in: what it returns or raises before the
\* except clauses see it
sign_in_try(data, up) ==
    IF up.kind # "response"
    THEN Out(Cur, RaiseMsg(up.kind, up.message))
    ELSE IF ~up.session
    THEN IF up.user # {} THEN Out(Cur, RaiseMsg("UnauthorizedError", VerifyEmail))
         ELSE Out(Cur, RaiseMsg("UnauthorizedError", InvalidCredentials))
    ELSE IF up.user = {}
    THEN \* auth_response.user.id on None
         Out(Cur, RaiseMsg("AttributeError", <<>>))
    ELSE LET user == CHOOSE x \in up.user : TRUE
             synced == sync_from_supabase(users, user.id, {user.email},
                           [is_email_verified |-> {user.email_confirmed}])
         IN  IF synced.err # "none"
             THEN Out(Cur, RaiseMsg(synced.err, <<>>))
             ELSE LET row == CHOOSE r \in get_by_supabase_id(synced.users, user.id) : TRUE
                  IN  Out([Cur EXCEPT !.users = synced.users],
                          Ok(200, [access_token |-> user.id,
                                   user |-> [id |-> row.id, email |-> user.email]]))

\* sign_in whose except clauses let every error through as it is
sign_in_uncaught(data, up) == sign_in_try(data, up)

\* AuthService.sign_in: UnauthorizedError is re-raised, every other exception
\* becomes UnauthorizedError("Invalid credentials")
sign_in(data, up) ==
    LET out == sign_in_try(data, up)
    IN  IF out.resp.err \in {"none", "UnauthorizedError"} THEN out
        ELSE Out(Cur, RaiseMsg("UnauthorizedError", InvalidCredentials))

\* the requests of the auth router
SignUp(data, up) == Request("sign_up", sign_up(data, up))

SignIn(data, up) == Request("sign_in", sign_in(data, up))

(***************************************************************************)
(* Current-user resolution (infrastructure/security)                       *)
(***************************************************************************)
\* bearer tokens: whether verify_jwt_token accepts the token, and the sub and
\* email claims of its payload (email may be missing)
Tokens == [valid : BOOLEAN, sub : Subjects, email : {{}} \cup {{e} : e \in Emails}]

\* no keyword arguments
NoData == [key \in {} |-> {}]

\* get_current_user: verify the token, sync the user with the sub and email
\* claims only, return the AuthenticatedUser of the local row.
\* UnauthorizedError is answered as HTTPException 401; an error of the sync is
\* not caught
get_current_user(token) ==
    IF ~token.valid
    THEN Out(Cur, [status |-> 401, err |-> "HTTPException", body |-> <<>>, msg |-> <<>>])
    ELSE LET synced == sync_from_supabase(users, token.sub, token.email, NoData)
         IN  IF synced.err # "none"
             THEN Out(Cur, RaiseMsg(synced.err, <<>>))
             ELSE LET user_db == CHOOSE r \in synced.row : TRUE
                  IN  Out([Cur EXCEPT !.users = synced.users],
                          Ok(200, [user_id |-> user_db.id, email |-> user_db.email,
                                   is_active |-> user_db.is_active]))

\* a request on a protected route: require_auth resolves the current user and
\* the handler runs as that user (what the handler itself does is left to the
\* actions of the features)
RequireAuth(token) == Request("require_auth", get_current_user(token))


(***************************************************************************)
(* Rate limiting (infrastructure/cache/rate_limiter.py)                    *)
(***************************************************************************)
\* RateLimits: requests per minute
AUTH_STRICT == 5
PASSWORD == 3
STANDARD == 100
READ_HEAVY == 200

\* requests over the tier the model follows within one window
MaxExcess == 2

\* network addresses of the callers
Addresses == {"10.0.0.1", "10.0.0.2"}

\* one decorated route of each kind, with the tier of its decorator
LimitedRoutes == {"sign_up", "sign_in", "resend_verification", "delete_event",
                  "list_events"}

LimitOf(route) == CASE route \in {"sign_up", "sign_in"} -> AUTH_STRICT
                    [] route = "resend_verification" -> PASSWORD
                    [] route = "delete_event" -> STANDARD
                    [] route = "list_events" -> READ_HEAVY

\* the keys a counter may be kept under
Keys == Addresses \cup Users

\* the counters of the limiter storage: the hits of the current window of each
\* route and key
NoHits == [rk \in LimitedRoutes \X Keys |-> 0]

\* the request object the limiter receives.  get_current_user hands the
\* AuthenticatedUser to the route as a parameter; neither it nor any other
\* code sets request.state.user, for authenticated requests as for anonymous ones
HttpRequest(address, current_user) == [address |-> address, state |-> NoData]

\* get_identifier: str(request.state.user.user_id) when request.state has a
\* user, else get_remote_address(request)
get_identifier(request) ==
    IF Given(request.state, "user") THEN Value(request.state, "user").user_id
    ELSE request.address

\* the limiter admits every request
within_limit_always(h, route, key) == TRUE

\* fixed-window strategy: the hit is counted, and the request is within the
\* limit while the count does not exceed the tier
within_limit(h, route, key) == h[<<route, key>>] + 1 <= LimitOf(route)

hit(h, route, key) == [h EXCEPT ![<<route, key>>] = @ + 1]

\* rate_limit_exceeded_handler
rate_limit_exceeded_handler(detail) ==
    [status |-> 429, err |-> "RateLimitExceeded", msg |-> <<>>,
     body |-> [error |-> "RateLimitExceeded",
               message |-> "Too many requests. Please slow down.",
               details |-> [retry_after |-> detail]]]

\* the clients use one route at a time: a request is sent on a route when the
\* windows of the other routes have expired
Quiet(route) == \A rk \in DOMAIN hits : rk[1] # route => hits[rk] = 0

\* a request on a route decorated with limiter.limit: the dependencies of the
\* route have resolved, the limiter counts the request under its key, and the
\* handler runs if the request is within the limit
Limited(route, request, out) ==
    LET key == get_identifier(request)
    IN  /\ Quiet(route)
        /\ hits[<<route, key>>] < LimitOf(route) + MaxExcess
        /\ hits' = hit(hits, route, key)
        /\ IF within_limit(hits, route, key) THEN Respond(route, out)
           ELSE Respond(route, Out(Cur, rate_limit_exceeded_handler(LimitOf(route))))
        /\ UNCHANGED <<session, store, inflight>>

\* the window of a counter ends: the storage drops the key
WindowExpires(route, key) ==
    /\ hits[<<route, key>>] > 0
    /\ hits' = [hits EXCEPT ![<<route, key>>] = 0]
    /\ UNCHANGED <<events, albums, images, bucket, nextId, resp, users, session, store,
                   inflight>>

\* AuthService.resend_verification_email
resend_verification_email(email, up) ==
    IF up.kind = "AuthApiError"
    THEN Out(Cur, RaiseMsg("BadRequestError",
                           <<"Could not resend verification email: ", up.message>>))
    ELSE IF up.kind # "response" THEN Out(Cur, RaiseMsg(up.kind, <<>>))
    ELSE Out(Cur, Ok(200, [message |-> "Verification email sent. Please check your inbox."]))

\* the account the rate-limited auth requests are about, and what the identity
\* service answers them with
LimitedAccount == [email |-> "a@x", username |-> "ann"]
LimitedUpstream ==
    { up \in UpstreamOutcomes("a@x") :
         \/ up.kind = "AuthApiError" /\ up.message[1] = "U"
         \/ /\ up.kind = "response" /\ up.session
            /\ \E x \in up.user : x.id = "s1" /\ x.email_confirmed }

\* the rate-limited requests
LimitedSignUp(address, up) ==
    Limited("sign_up", HttpRequest(address, {}), sign_up(LimitedAccount, up))

LimitedSignIn(address, up) ==
    Limited("sign_in", HttpRequest(address, {}), sign_in(LimitedAccount, up))

LimitedResend(address, up) ==
    Limited("resend_verification", HttpRequest(address, {}),
            resend_verification_email(LimitedAccount.email, up))

LimitedDeleteEvent(address, u, event_id) ==
    Limited("delete_event", HttpRequest(address, {[user_id |-> u]}),
            delete_event(u, event_id, TRUE))

LimitedListEvents(address, u) ==
    \E out \in get_user_events(u) :
        Limited("list_events", HttpRequest(address, {[user_id |-> u]}), out)


(***************************************************************************)
(* The per-request session, step by step (infrastructure/database)         *)
(*                                                                         *)
(* session is the session of the request in progress and what get_db has   *)
(* done with it; store is what the database holds committed.               *)
(***************************************************************************)
\* requests followed one after the other
MaxRequests == 3

\* exceptions a handler or a commit may raise: subclasses of SQLAlchemyError,
\* and others (errors of the application, of the repositories, of Python)
SQLAlchemyErrors == {"IntegrityError", "OperationalError"}
OtherErrors == {"NotFoundError", "IntegrityConstraintError", "ValueError"}

NoSession == [req |-> 0, pc |-> "done", flushed |-> {}, handler |-> "none",
              error |-> "none", original_error |-> "none",
              committed |-> FALSE, rolled_back |-> FALSE, closed |-> FALSE]

\* AsyncSessionLocal(): a new session for the next request
AsyncSessionLocal(req) == [NoSession EXCEPT !.req = req, !.pc = "handler",
                                            !.handler = "running"]

\* session.commit() that succeeds, session.rollback(), session.close()
commit(s) == [s EXCEPT !.committed = TRUE, !.flushed = {}]

\* a rollback that does nothing
rollback_skipped(s) == s

rollback(s) == [s EXCEPT !.rolled_back = TRUE, !.flushed = {}]

close(s) == [s EXCEPT !.closed = TRUE, !.flushed = {}]

\* get_db that re-raises every exception as it is
reraise_unwrapped(e) == [error |-> e, original_error |-> "none"]

\* the except clauses of get_db: SQLAlchemyError is re-raised as
\* DatabaseConnectionError(original_error=e), any other Exception as it is
reraise(e) ==
    IF e \in SQLAlchemyErrors
    THEN [error |-> "DatabaseConnectionError", original_error |-> e]
    ELSE [error |-> e, original_error |-> "none"]

\* async with AsyncSessionLocal() as session: ... yield session
SessionOpen ==
    /\ session.pc = "done"
    /\ session.req < MaxRequests
    /\ session' = AsyncSessionLocal(session.req + 1)
    /\ UNCHANGED <<events, albums, images, bucket, nextId, resp, users, hits, store,
                   inflight>>

\* the handler writes through the session (add and flush)
HandlerFlushes ==
    /\ session.pc = "handler"
    /\ session.flushed = {}
    /\ session' = [session EXCEPT !.flushed = {session.req}]
    /\ UNCHANGED <<events, albums, images, bucket, nextId, resp, users, hits, store,
                   inflight>>

\* the handler returns: control comes back after the yield
HandlerReturns ==
    /\ session.pc = "handler"
    /\ session' = [session EXCEPT !.pc = "commit", !.handler = "returned"]
    /\ UNCHANGED <<events, albums, images, bucket, nextId, resp, users, hits, store,
                   inflight>>

\* the handler raises e: the exception is thrown into get_db at the yield
HandlerRaises(e) ==
    /\ session.pc = "handler"
    /\ session' = [session EXCEPT !.pc = "except", !.handler = "raised", !.error = e]
    /\ UNCHANGED <<events, albums, images, bucket, nextId, resp, users, hits, store,
                   inflight>>

\* await session.commit() succeeds: the flushed changes are in the database
CommitSucceeds ==
    /\ session.pc = "commit"
    /\ store' = store \cup session.flushed
    /\ session' = [commit(session) EXCEPT !.pc = "finally"]
    /\ UNCHANGED <<events, albums, images, bucket, nextId, resp, users, hits,
                   inflight>>

\* await session.commit() raises e: nothing is committed
CommitRaises(e) ==
    /\ session.pc = "commit"
    /\ session' = [session EXCEPT !.pc = "except", !.error = e]
    /\ UNCHANGED <<events, albums, images, bucket, nextId, resp, users, hits, store,
                   inflight>>

\* except SQLAlchemyError / except Exception: rollback, then re-raise
Except ==
    /\ session.pc = "except"
    /\ session' = [rollback(session) EXCEPT
                      !.pc = "finally",
                      !.error = reraise(session.error).error,
                      !.original_error = reraise(session.error).original_error]
    /\ UNCHANGED <<events, albums, images, bucket, nextId, resp, users, hits, store,
                   inflight>>

\* finally: await session.close()
Finally ==
    /\ session.pc = "finally"
    /\ session' = [close(session) EXCEPT !.pc = "done"]
    /\ UNCHANGED <<events, albums, images, bucket, nextId, resp, users, hits, store,
                   inflight>>


(***************************************************************************)
(* Repository methods under a failure of the storage layer                 *)
(***************************************************************************)
\* methods whose query or flush runs inside try / except SQLAlchemyError;
\* create and update have an except IntegrityError clause before it
IntegrityWrappedMethods == {"create", "update"}
WrappedMethods ==
    IntegrityWrappedMethods \cup
    {"get_by_id", "get_all", "delete",
     "get_by_user_and_id", "get_all_by_user_id", "get_by_slug"}

\* methods of the feature repositories: session.execute with no try around it
UnwrappedMethods ==
    {"get_published_by_user", "get_published_event_by_slug",
     "get_public_images", "get_public_image_by_slug",
     "get_all_album_with_images", "get_album_with_images",
     "get_by_supabase_id"}

RepositoryMethods == WrappedMethods \cup UnwrappedMethods

\* the exception that leaves the repository method when session.execute or
\* session.flush raises the SQLAlchemyError e
raised_to_service(method, e) ==
    IF method \in IntegrityWrappedMethods /\ e = "IntegrityError"
    THEN "IntegrityConstraintError"
    ELSE IF method \in WrappedMethods THEN "DatabaseError"
    ELSE e

\* a handler calls a repository method and the storage layer fails with e;
\* resp records the method, the exception the service receives and e
RepositoryFails(method, e) ==
    /\ session.pc = "handler"
    /\ resp' = [op |-> method, status |-> 0,
                err |-> raised_to_service(method, e), msg |-> <<e>>]
    /\ UNCHANGED <<events, albums, images, bucket, nextId, users, hits,
                   session, store, inflight>>

(***************************************************************************)
(* Concurrent add_event and create_album: each request has its own         *)
(* session; the tables hold the committed rows                             *)
(***************************************************************************)
RequestIds == {"r1", "r2"}

NoRequest == [pc |-> "idle", table |-> "none", user_id |-> "none", data |-> <<>>,
              slug |-> <<>>, counter |-> 0, row |-> {}, rival |-> "none",
              status |-> 0]

\* the committed rows of a table, and the user_id the slug probe of its
\* service passes: add_event its user, create_album none
Table(t) == IF t = "events" THEN events ELSE albums
Scope(t, u) == IF t = "events" THEN u ELSE "none"

\* the requests whose session holds a flushed, uncommitted row of table t
\* with the slug
Uncommitted(t, slug) ==
    {r \in RequestIds : inflight[r].table = t /\
                        \E row \in inflight[r].row : row.slug = slug}

\* session.flush() of the INSERT in BaseRepository.create under the unique
\* index of slug: the statement waits while another transaction holds an
\* uncommitted row with the slug, raises IntegrityError when a committed row
\* has it, and inserts otherwise
flush_insert(r) ==
    IF Uncommitted(inflight[r].table, inflight[r].slug) \ {r} # {} THEN "waits"
    ELSE IF SlugTaken(Table(inflight[r].table), inflight[r].slug) THEN "IntegrityError"
    ELSE "ok"

\* the row repo.create builds
NewRow(r) ==
    LET q == inflight[r]
    IN  IF q.table = "events"
        THEN [id |-> nextId.events, user_id |-> q.user_id, title |-> q.data.title,
              slug |-> q.slug, cover_image |-> Null,
              start_at |-> q.data.start_at, is_published |-> q.data.is_published]
        ELSE [id |-> nextId.albums, user_id |-> q.user_id, title |-> q.data.title,
              slug |-> q.slug, cover_url |-> Null,
              is_published |-> q.data.is_published]

\* the requests on table t that have not inserted yet
Pending(t) == Cardinality({r \in RequestIds : inflight[r].table = t /\
                                              inflight[r].pc \in {"probe", "insert"}})

\* a request enters add_event or create_album: generate_unique_slug starts
\* with slug = slugify(base_text) and counter = 1.  The two tables do not
\* depend on each other and are exercised one at a time.
Begin(r, t, u, data) ==
    /\ inflight[r].pc \in {"idle", "done"}
    /\ \A o \in RequestIds \ {r} : inflight[o].table \in {"none", t}
    /\ \A o \in {"events", "albums"} \ {t} : Table(o) = {}
    /\ Created + Pending(t) < MaxRows
    /\ inflight' = [inflight EXCEPT ![r] =
            [NoRequest EXCEPT !.pc = "probe", !.table = t, !.user_id = u,
                              !.data = data, !.slug = slugify(data.title),
                              !.counter = 1]]
    /\ UNCHANGED <<events, albums, images, bucket, nextId, resp, users, hits,
                   session, store>>

\* the requests that left the loop with the same candidate for the same
\* table and have not inserted yet
Rivals(r, t, slug) ==
    {o \in RequestIds \ {r} : inflight[o].pc = "insert" /\ inflight[o].table = t /\
                               inflight[o].slug = slug}

\* one pass of the loop of generate_unique_slug: get_by_slug reads the
\* committed rows; a hit appends the counter, a miss returns the slug.
\* rival records a request that holds the same candidate at that moment.
Probe(r) ==
    LET q == inflight[r]
    IN  /\ q.pc = "probe"
        /\ IF get_by_slug(Table(q.table), q.slug, Scope(q.table, q.user_id)) # {}
           THEN inflight' = [inflight EXCEPT ![r] =
                    [q EXCEPT !.slug = slugify(q.data.title) \o <<"-">> \o Decimal(q.counter),
                              !.counter = q.counter + 1]]
           ELSE inflight' =
                    [o \in RequestIds |->
                        IF o = r
                        THEN [q EXCEPT !.pc = "insert",
                                       !.rival = IF Rivals(r, q.table, q.slug) = {} THEN "none"
                                                 ELSE CHOOSE x \in Rivals(r, q.table, q.slug) : TRUE]
                        ELSE IF o \in Rivals(r, q.table, q.slug)
                        THEN [inflight[o] EXCEPT !.rival = r]
                        ELSE inflight[o]]
        /\ UNCHANGED <<events, albums, images, bucket, nextId, resp, users, hits,
                       session, store>>

\* repo.create: add and flush.  IntegrityError becomes
\* IntegrityConstraintError, which the service turns into ConflictError
Insert(r) ==
    LET q == inflight[r]
    IN  /\ q.pc = "insert"
        /\ flush_insert(r) # "waits"
        /\ IF flush_insert(r) = "IntegrityError"
           THEN /\ inflight' = [inflight EXCEPT ![r].pc = "except"]
                /\ UNCHANGED nextId
           ELSE /\ inflight' = [inflight EXCEPT ![r].pc = "commit",
                                                ![r].row = {NewRow(r)}]
                /\ nextId' = IF q.table = "events"
                             THEN [nextId EXCEPT !.events = @ + 1]
                             ELSE [nextId EXCEPT !.albums = @ + 1]
        /\ UNCHANGED <<events, albums, images, bucket, resp, users, hits,
                       session, store>>

\* what is kept of a request that was answered: its table, its slug, the
\* request it raced with and the status of its response
Done(q, status) ==
    [NoRequest EXCEPT !.pc = "done", !.table = q.table, !.slug = q.slug,
                      !.rival = q.rival, !.status = status]

\* the handler returned: get_db commits and the response is 201
Commit(r) ==
    LET q == inflight[r]
    IN  /\ q.pc = "commit"
        /\ events' = IF q.table = "events" THEN events \cup q.row ELSE events
        /\ albums' = IF q.table = "albums" THEN albums \cup q.row ELSE albums
        /\ inflight' = [inflight EXCEPT ![r] = Done(q, 201)]
        /\ resp' = [op |-> IF q.table = "events" THEN "add_event" ELSE "create_album",
                    status |-> 201, err |-> "none", msg |-> <<>>]
        /\ UNCHANGED <<images, bucket, nextId, users, hits, session, store>>

\* ConflictError left the handler: get_db rolls back and the response is 409
Rollback(r) ==
    LET q == inflight[r]
    IN  /\ q.pc = "except"
        /\ inflight' = [inflight EXCEPT ![r] = Done(q, StatusOf("ConflictError"))]
        /\ resp' = [op |-> IF q.table = "events" THEN "add_event" ELSE "create_album",
                    status |-> StatusOf("ConflictError"), err |-> "ConflictError",
                    msg |-> <<>>]
        /\ UNCHANGED <<events, albums, images, bucket, nextId, users, hits,
                       session, store>>

(***************************************************************************)
(* Specifications                                                          *)
(***************************************************************************)
Init ==
    /\ events = {}
    /\ albums = {}
    /\ images = {}
    /\ bucket = {}
    /\ nextId = [events |-> 1, albums |-> 1, images |-> 1]
    /\ resp = [op |-> "none", status |-> 0, err |-> "none", msg |-> <<>>]
    /\ users = {}
    /\ hits = NoHits
    /\ session = NoSession
    /\ store = {}
    /\ inflight = [r \in RequestIds |-> NoRequest]

\* the events routes, events created without a cover file
EventsNext ==
    \/ \E u \in Users, data \in EventCreates \cup PastEventCreates :
          AddEvent(u, NoFile, data, TRUE)
    \/ \E u \in Users, i \in ProbeIds(events) : GetEvent(u, i)
    \/ \E u \in Users : GetUserEvents(u)
    \/ \E u \in Users, i \in ProbeIds(events), data \in EventUpdates :
          UpdateEvent(u, i, data)
    \/ \E u \in Users, i \in ProbeIds(events), ok \in BOOLEAN : DeleteEvent(u, i, ok)
    \/ \E u \in Users, page \in Pages : GetPublicEvents(u, page[1], page[2])
    \/ \E u \in Users, slug \in EventSlugs : GetPublicEventBySlug(u, slug)

EventsSpec == Init /\ [][EventsNext]_vars

\* the events routes that reach the storage bucket: create with or without a
\* cover file, delete, and the read that follows a delete
CoverNext ==
    \/ \E u \in Users, file \in {NoFile} \cup Files, data \in CoverCreates,
          upload_ok \in BOOLEAN :
          (file = NoFile => upload_ok) /\ AddEvent(u, file, data, upload_ok)
    \/ \E u \in Users, i \in ProbeIds(events), ok \in BOOLEAN : DeleteEvent(u, i, ok)
    \/ \E u \in Users, i \in ProbeIds(events) : GetEvent(u, i)

CoverSpec == Init /\ [][CoverNext]_vars

\* the gallery routes
GalleryNext ==
    \/ \E u \in Users, data \in AlbumCreates : CreateAlbum(u, data)
    \/ \E u \in Users, i \in ProbeIds(albums) : GetAlbum(u, i)
    \/ \E u \in Users : GetAlbums(u)
    \/ \E u \in Users, i \in ProbeIds(albums), data \in AlbumUpdates :
          UpdateAlbum(u, i, data)
    \/ \E u \in Users, i \in ProbeIds(albums) : DeleteAlbum(u, i)
    \/ \E u \in Users, i \in ProbeIds(albums), files \in SentBatches :
          UploadImages(u, i, files, 0)
    \/ \E u \in Users, page \in Pages : GetUserImages(u, page[1], page[2])
    \/ \E u \in Users, page \in Pages : ListPublicImages(u, page[1], page[2])
    \/ \E u \in Users, slug \in ImageSlugs : GetPublicImage(u, slug)
    \/ \E u \in Users, slug \in AlbumSlugs : GetPublicAlbum(u, slug)
    \/ \E u \in Users : GetAllPublicAlbums(u)
    \/ \E u \in Users, i \in ProbeIds(images) : DeleteImage(u, i)

GallerySpec == Init /\ [][GalleryNext]_vars

\* the authenticated routes of both features, on published rows
OwnedEventCreates == [title : Titles, start_at : {1}, is_published : {TRUE}]
OwnedAlbumCreates == [title : {<<"G", "i", "g">>}, is_published : {TRUE}]
OwnedEventUpdates == { [is_published |-> {FALSE}, start_at |-> {2}] }
OwnedAlbumUpdates == { [is_published |-> {FALSE}] }

AuthenticatedNext ==
    \/ \E u \in Users, data \in OwnedEventCreates :
          AddEvent(u, NoFile, data, TRUE)
    \/ \E u \in Users, i \in ProbeIds(events) : GetEvent(u, i)
    \/ \E u \in Users : GetUserEvents(u)
    \/ \E u \in Users, i \in ProbeIds(events), data \in OwnedEventUpdates :
          UpdateEvent(u, i, data)
    \/ \E u \in Users, i \in ProbeIds(events) : DeleteEvent(u, i, TRUE)
    \/ \E u \in Users, data \in OwnedAlbumCreates :
          CreateAlbum(u, data)
    \/ \E u \in Users, i \in ProbeIds(albums) : GetAlbum(u, i)
    \/ \E u \in Users : GetAlbums(u)
    \/ \E u \in Users, i \in ProbeIds(albums), data \in OwnedAlbumUpdates :
          UpdateAlbum(u, i, data)
    \/ \E u \in Users, i \in ProbeIds(albums) : DeleteAlbum(u, i)
    \/ \E u \in Users, i \in ProbeIds(albums) :
          UploadImages(u, i, <<Png>>, 0)
    \/ \E u \in Users : GetUserImages(u, 2, 0)

AuthenticatedSpec == Init /\ [][AuthenticatedNext]_vars


\* the auth routes and the resolution of the current user
AuthNext ==
    \/ \E data \in SignUpRequests : \E up \in UpstreamOutcomes(data.email) :
          SignUp(data, up)
    \/ \E data \in SignInRequests : \E up \in UpstreamOutcomes(data.email) :
          SignIn(data, up)
    \/ \E token \in Tokens : RequireAuth(token)

AuthSpec == Init /\ [][AuthNext]_vars


\* the rate-limited routes, called from two addresses; the authenticated
\* users may call from the same address
RateLimitNext ==
    \/ \E a \in Addresses, up \in LimitedUpstream : LimitedSignUp(a, up)
    \/ \E a \in Addresses, up \in LimitedUpstream : LimitedSignIn(a, up)
    \/ \E a \in Addresses, up \in LimitedUpstream : LimitedResend(a, up)
    \/ \E a \in Addresses, u \in Users, i \in ProbeIds(events) :
          LimitedDeleteEvent(a, u, i)
    \/ \E a \in Addresses, u \in Users : LimitedListEvents(a, u)
    \/ \E rk \in DOMAIN hits : WindowExpires(rk[1], rk[2])

RateLimitSpec == Init /\ [][RateLimitNext]_vars


\* the steps of get_db around the handlers of successive requests
SessionStep ==
    \/ HandlerFlushes
    \/ HandlerReturns
    \/ \E e \in SQLAlchemyErrors \cup OtherErrors : HandlerRaises(e)
    \/ CommitSucceeds
    \/ \E e \in SQLAlchemyErrors \cup OtherErrors : CommitRaises(e)
    \/ Except
    \/ Finally

SessionNext == SessionOpen \/ SessionStep

SessionSpec == Init /\ [][SessionNext]_vars

\* the event loop runs a request that has started until get_db has finished:
\* a handler ends by returning or raising, and each await of get_db completes
SessionFairSpec == Init /\ [][SessionNext]_vars /\ WF_vars(SessionStep)


\* the album routes that create, change and remove albums
AlbumSlugNext ==
    \/ \E u \in Users, data \in AlbumCreates : CreateTitledAlbum(u, data)
    \/ \E u \in Users, i \in ProbeIds(albums), data \in AlbumUpdates :
          UpdateAlbum(u, i, data)
    \/ \E u \in Users, i \in ProbeIds(albums) : DeleteAlbum(u, i)

AlbumSlugSpec == Init /\ [][AlbumSlugNext]_vars

\* the session of a request whose handler calls the repositories
RepositoryNext ==
    \/ SessionNext
    \/ \E method \in RepositoryMethods, e \in SQLAlchemyErrors :
          RepositoryFails(method, e)

RepositorySpec == Init /\ [][RepositoryNext]_vars

\* the routes that write events, with update bodies as clients send them
EventFrameNext ==
    \/ \E u \in Users, data \in CoverCreates : AddEvent(u, NoFile, data, TRUE)
    \/ \E u \in Users, i \in ProbeIds(events), body \in EventPatchBodies :
          PatchEvent(u, i, body)
    \/ \E u \in Users, i \in ProbeIds(events) : DeleteEvent(u, i, TRUE)

EventFrameSpec == Init /\ [][EventFrameNext]_vars

\* a key of the body is supplied as null
SuppliesNull(body) == \E key \in DOMAIN body : body[key] = {}

\* the updates of events, albums and users, with bodies and tokens that
\* supply nulls: the only bodies that set a title also supply a null.  The
\* three tables do not depend on each other and are exercised one at a time.
NullUpdateNext ==
    \/ /\ albums = {} /\ users = {}
       /\ \/ \E u \in Users, data \in CoverCreates : AddEvent(u, NoFile, data, TRUE)
          \/ \E u \in Users, i \in ProbeIds(events) :
                \E body \in {b \in EventPatchBodies :
                                SuppliesNull(b) \/ "title" \notin DOMAIN b} :
                   PatchEvent(u, i, body)
          \/ \E u \in Users, i \in ProbeIds(events) : DeleteEvent(u, i, TRUE)
    \/ /\ events = {} /\ users = {}
       /\ \/ \E u \in Users, data \in AlbumCreates : CreateAlbum(u, data)
          \/ \E u \in Users, i \in ProbeIds(albums) :
                \E data \in {b \in AlbumUpdates :
                                SuppliesNull(b) \/ "title" \notin DOMAIN b} :
                   UpdateAlbum(u, i, data)
          \/ \E u \in Users, i \in ProbeIds(albums) : DeleteAlbum(u, i)
    \/ /\ events = {} /\ albums = {}
       /\ \/ \E data \in SignUpRequests : \E up \in UpstreamOutcomes(data.email) :
                up.kind = "response" /\ SignUp(data, up)
          \/ \E token \in Tokens : RequireAuth(token)

NullUpdateSpec == Init /\ [][NullUpdateNext]_vars

\* two requests at a time in add_event and create_album, interleaved at
\* every await
ConcurrentNext ==
    \/ \E r \in RequestIds, u \in Users, data \in CoverCreates :
          Begin(r, "events", u, data)
    \/ \E r \in RequestIds, u \in Users, data \in AlbumCreates :
          data.is_published /\ Begin(r, "albums", u, data)
    \/ \E r \in RequestIds : Probe(r)
    \/ \E r \in RequestIds : Insert(r)
    \/ \E r \in RequestIds : Commit(r)
    \/ \E r \in RequestIds : Rollback(r)

ConcurrentSpec == Init /\ [][ConcurrentNext]_vars

(***************************************************************************)
(* Properties                                                              *)
(***************************************************************************)
\* user u owns a row of table with id i
Owns(table, u, i) == \E r \in table : r.id = i /\ r.user_id = u

\* the ids a client may name: those of all rows of both tables, and an absent one
ClientIds == {e.id : e \in events} \cup {a.id : a \in albums} \cup AbsentIds

\* the handler raised NotFoundError (404) and neither its session nor the
\* commit changed a row
NotFoundNoChange(out) ==
    /\ out.resp.err = "NotFoundError" /\ out.resp.status = 404
    /\ out.st.events = events /\ out.st.albums = albums /\ out.st.images = images
    /\ get_db(out).events = events
    /\ get_db(out).albums = albums
    /\ get_db(out).images = images

\* every row a successful read returns belongs to u
RowsOf(u, rows) == \A k \in DOMAIN rows : rows[k].user_id = u

AlbumsOf(u, rows) ==
    \A k \in DOMAIN rows : /\ rows[k].album.user_id = u
                           /\ \A img \in rows[k].images : img.user_id = u

\* C1: ownership isolation.  For every user u and id i with no row of id i
\* owned by u (absent, or another user's), get_event, update_event,
\* delete_event, get_album, update_album and delete_album raise NotFoundError
\* (404) and change no row; and no authenticated read returns a row (or a
\* nested image) whose user_id is not the caller's.
C1_OwnershipIsolation ==
    \A u \in Users :
        /\ \A i \in ClientIds :
              /\ ~Owns(events, u, i) =>
                    /\ NotFoundNoChange(get_event(u, i))
                    /\ \A data \in EventUpdates : NotFoundNoChange(update_event(u, i, data))
                    /\ \A ok \in BOOLEAN : NotFoundNoChange(delete_event(u, i, ok))
              /\ ~Owns(albums, u, i) =>
                    /\ NotFoundNoChange(get_album(u, i))
                    /\ \A data \in AlbumUpdates : NotFoundNoChange(update_album(u, i, data))
                    /\ NotFoundNoChange(delete_album(u, i))
              /\ get_event(u, i).resp.err = "none" => RowsOf(u, get_event(u, i).resp.body)
              /\ get_album(u, i).resp.err = "none" => AlbumsOf(u, get_album(u, i).resp.body)
        /\ \A out \in get_user_events(u) : RowsOf(u, out.resp.body)
        /\ \A out \in get_user_albums(u) : AlbumsOf(u, out.resp.body)
        /\ \A limit \in PageSizes, offset \in PageSizes :
              \A out \in get_user_images(u, limit, offset) : RowsOf(u, out.resp.body)
        /\ \A slug \in ImageSlugs :
              get_image_by_slug(u, slug).resp.err = "none"
                 => RowsOf(u, get_image_by_slug(u, slug).resp.body)

\* C1 witness: u1 owns an event and an album with an image, u2 asks to delete
\* the album and is answered 404, and the rows are all still there
C1_Witness ==
    /\ resp.op = "delete_album" /\ resp.status = 404
    /\ \E e \in events : e.user_id = "u1"
    /\ \E a \in albums : /\ a.user_id = "u1"
                         /\ \E img \in images : img.album_id = a.id
                         /\ delete_album("u2", a.id).resp.err = "NotFoundError"
                         /\ delete_album("u1", a.id).resp.err = "none"

\* the slugs of the events u owns
SlugsOf(u) == {e.slug : e \in {r \in events : r.user_id = u}}

\* C2: for a user u with no event of slug x or x-1, two successive add_event
\* calls with a title that slugifies to x create events with slugs x and x-1,
\* and the lookup of x-1 for u returns exactly the second event.  The first
\* call is one made while u owns neither slug; the second is one made while u
\* owns x and not x-1, which is the state the first call leaves.
C2_TwoCreatesSuffix ==
    \A u \in Users, data \in EventCreates :
        LET x == slugify(data.title)
            x1 == x \o <<"-", "1">>
            out == add_event(u, NoFile, data, TRUE)
        IN  /\ (x \notin SlugsOf(u) /\ x1 \notin SlugsOf(u)) =>
                 /\ out.resp.err = "none"
                 /\ out.resp.body[1].slug = x
            /\ (x \in SlugsOf(u) /\ x1 \notin SlugsOf(u)) =>
                 /\ out.resp.err = "none"
                 /\ out.resp.body[1].slug = x1
                 /\ get_by_slug(get_db(out).events, x1, u) = {out.resp.body[1]}

\* C2 witness: u1 owns the event of slug gig, u2 owns none, and u2's
\* add_event was answered 409 and created nothing
C2_Witness ==
    /\ resp.op = "add_event" /\ resp.status = 409 /\ resp.err = "ConflictError"
    /\ \E e \in events : e.user_id = "u1" /\ e.slug = <<"g", "i", "g">>
    /\ SlugsOf("u2") = {}

\* the album of id i as the state st holds it
AlbumIn(st, i) == CHOOSE a \in st.albums : a.id = i

\* C3: album cover rule.  An upload_images call that returns sets the album's
\* cover_url to the URL of the first file of the batch if and only if the
\* album had no cover; an album that has a cover keeps it through every
\* upload_images call, returning or raising, on any batch; no other album
\* changes.
C3_CoverRule ==
    \A u \in Users, a \in albums, files \in UploadBatches :
        \A fail_at \in 0..Len(files) :
            LET out == upload_images(u, a.id, files, fail_at)
                after == get_db(out)
            IN  /\ after.albums \ {AlbumIn(after, a.id)} = albums \ {a}
                /\ a.cover_url # Null => AlbumIn(after, a.id) = a
                /\ AlbumIn(after, a.id) = a
                     \/ AlbumIn(after, a.id) = [a EXCEPT !.cover_url = AlbumIn(after, a.id).cover_url]
                /\ (a.user_id = u /\ out.resp.err = "none") =>
                     /\ Len(out.resp.body) = Len(files)
                     /\ (AlbumIn(after, a.id).cover_url = out.resp.body[1].image_url
                           <=> a.cover_url = Null)
                /\ out.resp.err # "none" => AlbumIn(after, a.id) = a

\* C3 witness: an album whose cover is the URL of its first image holds a
\* second image with another URL, after an upload that returned
C3_Witness ==
    /\ resp.op = "upload_images" /\ resp.status = 201
    /\ \E a \in albums : \E first \in images, second \in images :
          /\ first.album_id = a.id /\ second.album_id = a.id
          /\ first.id < second.id
          /\ a.cover_url = first.image_url
          /\ a.cover_url # second.image_url

\* the row of table tbl with id i
RowIn(tbl, i) == CHOOSE r \in tbl : r.id = i

\* the frame of one update: the row keeps its fields, and those omitted from
\* data keep their values
FieldFrame(before, after, data) ==
    /\ DOMAIN after = DOMAIN before
    /\ \A key \in DOMAIN before : key \notin DOMAIN data => after[key] = before[key]

\* the fields supplied with a value have taken it
Applied(after, data) ==
    \A key \in DOMAIN data : data[key] # {} => after[key] \in data[key]

ImagesOfAlbum(a) == {img \in images : img.album_id = a.id}

\* C5: album cascade.  In every reachable state every Image references an
\* existing Album; a delete_album by the owner returns 204 and leaves no Image
\* with that album_id, the other rows being unchanged, so that a slug lookup
\* of one of its images finds nothing.
C5_AlbumCascade ==
    /\ \A img \in images : \E a \in albums : a.id = img.album_id
    /\ \A a \in albums :
          LET out == delete_album(a.user_id, a.id)
              after == get_db(out)
          IN  /\ out.resp.err = "none" /\ out.resp.status = 204
              /\ after.albums = albums \ {a}
              /\ after.images = images \ ImagesOfAlbum(a)
              /\ \A img \in ImagesOfAlbum(a) :
                    /\ get_by_slug(after.images, img.slug, a.user_id) = {}
                    /\ get_by_user_and_id(after.images, a.user_id, img.id) = {}

\* C5 witness: images were created, and after a delete_album answered 204
\* neither the album nor any image is left
C5_Witness ==
    /\ resp.op = "delete_album" /\ resp.status = 204
    /\ nextId.images > 1
    /\ albums = {} /\ images = {}

\* C6: delete_event by the owner removes exactly that event row and returns
\* 204 whether the storage delete succeeds or fails; in the state it leaves,
\* get_event of that id raises NotFoundError, and every other row is unchanged.
C6_DeleteEventAnyStorage ==
    [][\A u \in Users, ok \in BOOLEAN : \A e \in events :
          (e.user_id = u /\ DeleteEvent(u, e.id, ok)) =>
              /\ resp'.status = 204 /\ resp'.err = "none"
              /\ events' = events \ {e}
              /\ albums' = albums /\ images' = images
              /\ get_event(u, e.id)'.resp.err = "NotFoundError"]_vars

\* C6 witness: the one event ever created has been deleted with answer 204,
\* get_event of its id is NotFound, and an uploaded object is still stored
C6_Witness ==
    /\ resp.op = "delete_event" /\ resp.status = 204
    /\ events = {} /\ nextId.events = 2
    /\ Cardinality(bucket) = 1
    /\ \A u \in Users : get_event(u, 1).resp.err = "NotFoundError"

\* the images of u whose album is published now
Visible(u) ==
    {img \in images : /\ img.user_id = u
                      /\ \E a \in albums : a.id = img.album_id /\ a.is_published}

NoDuplicates(seq) == \A i \in DOMAIN seq, j \in DOMAIN seq : seq[i] = seq[j] => i = j

\* the length of the page cut from n rows
PageLen(n, limit, offset) ==
    IF n <= offset THEN 0 ELSE IF n - offset < limit THEN n - offset ELSE limit

\* C7: public image visibility follows the album's current is_published.
\* get_public_images(u) answers 200 with a page holding only images of u whose
\* album is published now, as many as limit and offset leave of them (the
\* empty list when there are none, never NotFound); an update_album of
\* is_published sets the flag these reads go by; get_public_image_by_slug
\* returns a visible image and raises NotFoundError for one whose album is
\* unpublished.
C7_PublicImagesFollowFlag ==
    \A u \in Users :
        /\ \A limit \in PageSizes, offset \in PageSizes :
              /\ get_public_images(u, limit, offset) # {}
              /\ \A out \in get_public_images(u, limit, offset) :
                    /\ out.resp.status = 200 /\ out.resp.err = "none"
                    /\ \A k \in DOMAIN out.resp.body : out.resp.body[k] \in Visible(u)
                    /\ NoDuplicates(out.resp.body)
                    /\ Len(out.resp.body) = PageLen(Cardinality(Visible(u)), limit, offset)
        /\ \A img \in images :
              LET out == get_public_image_by_slug(u, img.slug)
              IN  IF img \in Visible(u)
                  THEN out.resp.err = "none" /\ out.resp.body = <<img>>
                  ELSE out.resp.err = "NotFoundError" /\ out.resp.status = 404
        /\ \A a \in albums, b \in BOOLEAN :
              LET out == update_album(u, a.id, [is_published |-> {b}])
              IN  a.user_id = u =>
                     /\ out.resp.err = "none"
                     /\ get_db(out).images = images
                     /\ get_db(out).albums = (albums \ {a}) \cup {[a EXCEPT !.is_published = b]}

\* C7 witness: after an update_album, an album that holds images is
\* unpublished and the public list of its owner is the empty page
C7_Witness ==
    /\ resp.op = "update_album" /\ resp.status = 200
    /\ \E a \in albums :
          /\ ~a.is_published
          /\ ImagesOfAlbum(a) # {}
          /\ \A out \in get_public_images(a.user_id, 2, 0) : out.resp.body = <<>>

\* the published events of u
PublishedOf(u) == {e \in events : e.user_id = u /\ e.is_published}

\* row stands at position pos (from 1) of some ordering of rows by start_at
\* ascending: fewer than pos rows start before it, at least pos start no later
RankedAt(rows, row, pos) ==
    /\ Cardinality({r \in rows : r.start_at < row.start_at}) < pos
    /\ Cardinality({r \in rows : r.start_at <= row.start_at}) >= pos

\* C8: get_public_events(u, limit, offset) answers 200 with only published
\* events of u, ordered by start_at ascending, cut by offset and limit after
\* the ordering; get_public_event_by_slug(u, slug) returns the published event
\* of u with that slug and raises NotFoundError (404) when there is none (an
\* unpublished event, another user's event, an absent slug).
C8_PublicEvents ==
    \A u \in Users :
        /\ \A limit \in PageSizes, offset \in PageSizes :
              /\ get_public_events(u, limit, offset) # {}
              /\ \A out \in get_public_events(u, limit, offset) :
                    LET page == out.resp.body
                    IN  /\ out.resp.status = 200 /\ out.resp.err = "none"
                        /\ \A k \in DOMAIN page : page[k] \in PublishedOf(u)
                        /\ NoDuplicates(page)
                        /\ Len(page) = PageLen(Cardinality(PublishedOf(u)), limit, offset)
                        /\ \A k \in DOMAIN page : RankedAt(PublishedOf(u), page[k], offset + k)
        /\ \A slug \in EventSlugs :
              LET out == get_public_event_by_slug(u, slug)
                  match == {e \in PublishedOf(u) : e.slug = slug}
              IN  IF match = {}
                  THEN out.resp.err = "NotFoundError" /\ out.resp.status = 404
                  ELSE out.resp.err = "none" /\ out.resp.body[1] \in match

\* C8 witness: u1 has two published events, the one created first starting
\* later, and the public list was read
C8_Witness ==
    /\ resp.op = "get_public_events" /\ resp.status = 200
    /\ \E first \in PublishedOf("u1"), second \in PublishedOf("u1") :
          /\ first.id < second.id /\ first.start_at > second.start_at
          /\ \A out \in get_public_events("u1", 2, 0) : out.resp.body = <<second, first>>

\* C9: GET /album/public/{slug} returns the album of that slug when u owns it
\* and it is published, and ends with NotFoundError (404) otherwise (an
\* unpublished album, another user's album, an absent slug).
C9_PublicAlbumBySlug ==
    \A u \in Users, slug \in AlbumSlugs :
        LET out == get_public_album(u, slug)
            match == {a \in albums : a.slug = slug /\ a.user_id = u /\ a.is_published}
        IN  IF match = {}
            THEN out.resp.err = "NotFoundError" /\ out.resp.status = 404
            ELSE out.resp.err = "none" /\ out.resp.body[1].album \in match

\* C9 witness: there is an unpublished album, and the request for a public
\* album by slug ended with status 500
C9_Witness ==
    /\ resp.op = "get_public_album" /\ resp.status = 500
    /\ \E a \in albums : ~a.is_published

\* C10: DELETE /image/{image_id} removes the image and answers 204 when u owns
\* it, and answers NotFoundError (404) changing no row when the image is
\* absent or another user's.
C10_DeleteImage ==
    \A u \in Users, i \in ProbeIds(images) :
        LET out == delete_image(u, i)
        IN  IF Owns(images, u, i)
            THEN /\ out.resp.err = "none" /\ out.resp.status = 204
                 /\ get_db(out).images = images \ {RowIn(images, i)}
            ELSE /\ out.resp.err = "NotFoundError" /\ out.resp.status = 404
                 /\ get_db(out).images = images

\* C10 witness: the delete of an image ended with status 500 and the image
\* of the album is still there
C10_Witness ==
    /\ resp.op = "delete_image" /\ resp.status = 500
    /\ \E img \in images : delete_image(img.user_id, img.id).resp.err = "AttributeError"

\* the positions (from 1) of the files of a batch with an unsupported content type
Unsupported(files) ==
    {k \in DOMAIN files : files[k].content_type \notin {"image/jpeg", "image/png", "image/webp"}}

\* the least element of a non-empty set of numbers
Least(S) == CHOOSE k \in S : \A j \in S : k <= j

\* C11: a file whose content type is not image/jpeg, image/png or image/webp
\* is rejected with BadRequestError (400) before anything of it is uploaded or
\* any Image row of it is created: an upload whose first unsupported file is
\* number k (no storage failure before it) ends with 400, persists no Image
\* row, and has stored only objects of the k-1 files before it.
C11_UnsupportedTypeRejected ==
    \A a \in albums, files \in UploadBatches :
        \A fail_at \in 0..Len(files) :
            LET out == upload_images(a.user_id, a.id, files, fail_at)
                k == Least(Unsupported(files))
            IN  (Unsupported(files) # {} /\ (fail_at = 0 \/ fail_at > k)) =>
                    /\ out.resp.err = "BadRequestError" /\ out.resp.status = 400
                    /\ get_db(out).images = images
                    /\ get_db(out).albums = albums
                    /\ get_db(out).nextId = nextId
                    /\ Cardinality(out.st.images \ images) = k - 1
                    /\ Cardinality(get_db(out).bucket \ bucket) <= k - 1
                    /\ \A path \in get_db(out).bucket \ bucket : path[4] = "png"

\* C11 witness: an upload to an existing album raised BadRequestError, the
\* request ended with status 500, and no Image row has ever been persisted
C11_Witness ==
    /\ resp.op = "upload_images" /\ resp.status = 500 /\ resp.err = "BadRequestError"
    /\ albums # {}
    /\ images = {} /\ nextId.images = 1

\* C12: creating an event with start_at earlier than the current time is
\* rejected with status 400 rendered through the application error envelope
\* (the error is a BaseAppException), and no Event row is persisted.
C12_PastStartRejected ==
    \A u \in Users, data \in PastEventCreates, file \in {NoFile} \cup Files :
        LET out == create_event(u, file, data, TRUE)
        IN  /\ data.start_at < Now
            /\ out.resp.status = 400
            /\ out.resp.err \in BaseAppExceptions
            /\ get_db(out).events = events

\* C12 witness: a create_event request raised the ValidationError of the
\* past start_at, ended with status 500, and the events are as they were
C12_Witness ==
    /\ resp.op = "add_event" /\ resp.err = "ValidationError" /\ resp.status = 500
    /\ \A e \in events : e.start_at >= Now

\* C13: sign_in raises UnauthorizedError and nothing else.  No session and a
\* user: the verify-your-email message; no session and no user: "Invalid
\* credentials"; an error of the identity service, of the transport or of the
\* local sync: "Invalid credentials".  When it returns, the local User row of
\* the subject carries the email and the verification flag of the identity
\* service, and the tokens returned belong to that row.
C13_SignInMapping ==
    \A data \in SignInRequests : \A up \in UpstreamOutcomes(data.email) :
        LET out == sign_in(data, up)
            tried == sign_in_try(data, up)
        IN  /\ out.resp.err \in {"none", "UnauthorizedError"}
            /\ (up.kind = "response" /\ ~up.session /\ up.user # {}) =>
                  out.resp.err = "UnauthorizedError" /\ out.resp.msg = VerifyEmail
            /\ (up.kind = "response" /\ ~up.session /\ up.user = {}) =>
                  out.resp.err = "UnauthorizedError" /\ out.resp.msg = InvalidCredentials
            /\ (up.kind # "response" \/ tried.resp.err \notin {"none", "UnauthorizedError"}) =>
                  /\ out.resp.err = "UnauthorizedError"
                  /\ out.resp.msg = InvalidCredentials
                  /\ out.resp.status = 401
                  /\ get_db(out).users = users
            /\ out.resp.err = "none" =>
                  /\ up.kind = "response" /\ up.session /\ up.user # {}
                  /\ \E r \in get_db(out).users, x \in up.user :
                        /\ r.supabase_user_id = x.id
                        /\ r.email = x.email
                        /\ r.is_email_verified = x.email_confirmed
                        /\ out.resp.body.user.id = r.id
                        /\ out.resp.body.access_token = x.id

\* C13 witness: a sign-in whose local sync failed (the address of the account
\* is held by the row of another subject) ended as 401 "Invalid credentials"
C13_Witness ==
    /\ resp.op = "sign_in" /\ resp.err = "UnauthorizedError" /\ resp.status = 401
    /\ resp.msg = InvalidCredentials
    /\ \E data \in SignInRequests : \E up \in UpstreamOutcomes(data.email) :
          /\ up.kind = "response" /\ up.session /\ up.user # {}
          /\ sign_in_try(data, up).resp.err = "IntegrityConstraintError"
          /\ \E r \in users, x \in up.user : r.supabase_user_id = x.id

\* C14: sign_up maps its failures: an AuthApiError whose message contains
\* "already registered" raises the BadRequestError that points to sign-in and
\* resend-verification; any other AuthApiError raises BadRequestError carrying
\* the upstream message; an exception of the transport that is no AuthApiError
\* raises BadGatewayError (502); and no failing sign_up leaves a User row.
C14_SignUpMapping ==
    \A data \in SignUpRequests : \A up \in UpstreamOutcomes(data.email) :
        LET out == sign_up(data, up)
        IN  /\ (up.kind = "AuthApiError" /\ up.message = <<"U", "s", "e", "r", " ", "a", "l", "r", "e", "a", "d", "y", " ", "r", "e", "g", "i", "s", "t", "e", "r", "e", "d">>) =>
                  /\ out.resp.err = "BadRequestError" /\ out.resp.status = 400
                  /\ out.resp.msg = <<"User already registered. Please sign in or request a new verification email.">>
            /\ (up.kind = "AuthApiError" /\ up.message = <<"P", "a", "s", "s", "w", "o", "r", "d", " ", "t", "o", "o", " ", "w", "e", "a", "k">>) =>
                  /\ out.resp.err = "BadRequestError" /\ out.resp.status = 400
                  /\ out.resp.msg = <<"Sign up failed: ", up.message>>
            /\ up.kind = "ConnectError" =>
                  out.resp.err = "BadGatewayError" /\ out.resp.status = 502
            /\ out.resp.err # "none" => get_db(out).users = users

\* C14 witness: a sign-up during which the identity service could not be
\* reached ended with the exception of the transport, as a server error
C14_Witness ==
    /\ resp.op = "sign_up" /\ resp.err = "ConnectError" /\ resp.status = 500
    /\ \A r \in users : \E data \in SignUpRequests : r.username = data.username

\* the keyword arguments the callers of sync_from_supabase pass: none
\* (get_current_user), is_email_verified (sign_in), username and
\* is_email_verified (sign_up)
SyncExtras ==
    {NoData}
    \cup { [is_email_verified |-> {b}] : b \in BOOLEAN }
    \cup { [username |-> {n}, is_email_verified |-> {b}] : n \in Usernames, b \in BOOLEAN }

\* at most one row of tbl per subject id
OneRowPerSubject(tbl) ==
    \A r1, r2 \in tbl : r1.supabase_user_id = r2.supabase_user_id => r1 = r2

\* C19: the users table holds at most one row per subject id, and a
\* sync_from_supabase call keeps it so; for a subject that has a row the call
\* updates that row in place (same id, email and the supplied extras
\* overwritten) and creates no row; for a new subject it creates exactly one
\* row; no row present before is missing afterwards.
C19_UserUpsert ==
    /\ OneRowPerSubject(users)
    /\ \A sub \in Subjects, email \in Emails, extra \in SyncExtras :
        LET res == sync_from_supabase(users, sub, {email}, extra)
            had == get_by_supabase_id(users, sub)
            has == get_by_supabase_id(res.users, sub)
        IN  /\ OneRowPerSubject(res.users)
            /\ {r.id : r \in users} \subseteq {r.id : r \in res.users}
            /\ \A r \in users : r.supabase_user_id # sub => r \in res.users
            /\ had # {} =>
                  /\ res.err = "none"
                  /\ Cardinality(res.users) = Cardinality(users)
                  /\ \A old \in had : \E new \in has :
                        /\ new.id = old.id
                        /\ new.email = email
                        /\ \A key \in DOMAIN extra : new[key] = Value(extra, key)
            /\ had = {} =>
                  /\ res.err = "none"
                  /\ Cardinality(res.users) = Cardinality(users) + 1
                  /\ Cardinality(has) = 1

\* C19 witness: a request resolved a current user whose subject had no row,
\* the sync of that subject raised IntegrityConstraintError, and the users
\* table still has no row
C19_Witness ==
    /\ resp.op = "require_auth" /\ resp.err = "IntegrityConstraintError"
    /\ users = {}
    /\ hits = NoHits
    /\ session = NoSession
    /\ store = {}
    /\ \A sub \in Subjects, email \in Emails :
          sync_from_supabase(users, sub, {email}, NoData).users = {}

\* C20: when a bearer token verifies and its subject id has no local User
\* row, get_current_user creates the row of that subject and returns an
\* AuthenticatedUser carrying the id of the new row, so the request goes on
\* authenticated.
C20_FirstAuthCreatesUser ==
    \A token \in Tokens :
        (token.valid /\ token.email # {} /\ get_by_supabase_id(users, token.sub) = {}) =>
            LET out == get_current_user(token)
            IN  /\ out.resp.err = "none"
                /\ \E r \in get_db(out).users \ users :
                      /\ r.supabase_user_id = token.sub
                      /\ out.resp.body.user_id = r.id

\* C20 witness: the first request of a subject with a verified token ended as
\* a server error with IntegrityConstraintError, after another account had
\* signed up; the subject still has no row
C20_Witness ==
    /\ resp.op = "require_auth" /\ resp.err = "IntegrityConstraintError"
    /\ resp.status = 500
    /\ users # {}
    /\ \E sub \in Subjects : get_by_supabase_id(users, sub) = {}

\* the requests per minute each route is limited to
Tiers == [sign_up |-> 5, sign_in |-> 5, resend_verification |-> 3,
          delete_event |-> 100, list_events |-> 200]

ProtectedRoutes == {"delete_event", "list_events"}

\* C16: a request of an authenticated user on a protected route is counted
\* under the id of that user, not under its network address, so no counter of
\* a protected route is ever kept under an address; the address is the key of
\* a request for which no identity was resolved.
C16_KeyIsUserId ==
    /\ \A a \in Addresses, u \in Users :
          get_identifier(HttpRequest(a, {[user_id |-> u]})) = u
    /\ \A a \in Addresses : get_identifier(HttpRequest(a, {})) = a
    /\ \A route \in ProtectedRoutes, a \in Addresses : hits[<<route, a>>] = 0

\* C16 witness: requests of authenticated users were counted under the address
\* they came from, none under a user id, and the address was answered 429
C16_Witness ==
    /\ resp.op = "delete_event" /\ resp.status = 429
    /\ hits[<<"delete_event", "10.0.0.1">>] > 100
    /\ \A rk \in DOMAIN hits : rk[2] \in Users => hits[rk] = 0

\* C17: the session of a request: when the handler returns, get_db commits,
\* and a commit that succeeds persists exactly what the handler flushed; when
\* the handler or the commit raises, the session is rolled back and nothing of
\* the request is ever in the database; a session is never both committed and
\* rolled back; get_db is done only when the session is closed, and every
\* session handed to a handler is closed in the end.
C17_SessionLifecycle ==
    /\ [](session.pc = "done" /\ session.req > 0 =>
             /\ session.closed
             /\ session.committed \/ session.rolled_back
             /\ session.committed <=> (session.handler = "returned" /\ session.error = "none")
             /\ session.rolled_back <=> session.error # "none")
    /\ [](~(session.committed /\ session.rolled_back))
    /\ [](session.error # "none" => session.req \notin store)
    /\ [](session.pc = "commit" <=>
             (session.handler = "returned" /\ session.error = "none" /\ ~session.committed))
    /\ [][store' # store =>
             /\ session.pc = "commit" /\ session'.committed
             /\ store' = store \cup session.flushed]_vars
    /\ [][(session'.committed /\ ~session.committed) =>
             session.flushed \subseteq store']_vars
    /\ (session.pc = "handler" ~> session.closed)

\* C17 witness: get_db is done with the third session: its handler returned,
\* the commit raised, the session was rolled back and closed, and the
\* database holds what the first request committed and nothing of the others
C17_Witness ==
    /\ session.req = 3 /\ session.pc = "done" /\ session.closed
    /\ session.handler = "returned" /\ session.error # "none"
    /\ session.rolled_back /\ ~session.committed
    /\ store = {1}

\* C18 as stated: whatever exception reaches the except clauses of get_db, it
\* is re-raised as DatabaseConnectionError with the exception in original_error.
C18_EveryFailureWrapped ==
    [][session.pc = "except" =>
          /\ session'.error = "DatabaseConnectionError"
          /\ session'.original_error = session.error]_vars

\* C18, amended: an SQLAlchemyError raised while the session is in use, by the
\* handler or by the commit, is rolled back and re-raised as
\* DatabaseConnectionError with the SQLAlchemyError in original_error; an
\* exception of any other type is rolled back and re-raised as it is.
C18_SQLAlchemyErrorWrapped ==
    [][session.pc = "except" =>
          /\ session'.rolled_back
          /\ IF session.error \in SQLAlchemyErrors
             THEN /\ session'.error = "DatabaseConnectionError"
                  /\ session'.original_error = session.error
             ELSE /\ session'.error = session.error
                  /\ session'.original_error = "none"]_vars

\* C18 witness: get_db is done with a request whose handler raised
\* NotFoundError: the session was rolled back and closed and the error leaves
\* get_db as NotFoundError, wrapped in nothing
C18_Witness ==
    /\ session.pc = "done" /\ session.handler = "raised"
    /\ session.error = "NotFoundError" /\ session.original_error = "none"
    /\ session.rolled_back /\ session.closed

\* the candidates of generate_unique_slug: base, base-1, base-2, ...
Candidate(base, k) == IF k = 0 THEN base ELSE base \o <<"-">> \o Decimal(k)

\* the scopes generate_unique_slug is called with: a user, or none
SlugScopes == Users \cup {"none"}

\* C21: generate_unique_slug(text, user_id) returns a slug that get_by_slug
\* does not find in the scope of user_id, and it is the first free one of
\* slugify(text), slugify(text)-1, slugify(text)-2, ...: every candidate
\* before it is taken, so a candidate freed by a delete is used again before
\* a higher suffix.
C21_FirstFreeSlug ==
    \A user_id \in SlugScopes, text \in Titles :
        LET s == generate_unique_slug(events, text, user_id)
            base == slugify(text)
        IN  /\ get_by_slug(events, s, user_id) = {}
            /\ \E k \in 0..Cardinality(events) :
                  /\ s = Candidate(base, k)
                  /\ \A j \in 0..(k - 1) :
                        get_by_slug(events, Candidate(base, j), user_id) # {}

\* C21 witness: a user created two events titled "Gig" (slugs gig and gig-1)
\* and deleted the first; gig-1 is still taken, and the slug generated for
\* "Gig" is the freed gig, not gig-2
C21_Witness ==
    /\ resp.op = "delete_event" /\ resp.status = 204
    /\ \E e \in events :
          /\ e.id = 2 /\ e.title = <<"G", "i", "g">>
          /\ e.slug = <<"g", "i", "g", "-", "1">>
          /\ get_by_slug(events, <<"g", "i", "g">>, e.user_id) = {}
          /\ generate_unique_slug(events, <<"G", "i", "g">>, e.user_id) = <<"g", "i", "g">>

\* the rows get_by_slug(_, user_id) can find: those of the user, or all rows
ProbedScope(table, user_id) ==
    {r \in table : user_id # "none" => r.user_id = user_id}

\* C22: generate_unique_slug terminates: on a table that does not change
\* while it runs it returns after at most n+1 calls of get_by_slug, n being
\* the number of rows in the probed scope.
C22_SlugProbesBounded ==
    \A user_id \in SlugScopes, text \in Titles :
        /\ slug_probes(events, text, user_id)
              <= Cardinality(ProbedScope(events, user_id)) + 1
        /\ get_by_slug(events, generate_unique_slug(events, text, user_id), user_id) = {}

\* C22 witness: a user holds the events gig and gig-1, and the slug for "Gig"
\* is found with the third probe, one more than the rows of the user
C22_Witness ==
    /\ resp.op = "add_event" /\ resp.status = 201
    /\ \E u \in Users :
          /\ Cardinality(ProbedScope(events, u)) = 2
          /\ slug_probes(events, <<"G", "i", "g">>, u) = 3

\* C23: when user A owns an event with slug s and user B has none with slug
\* s, add_event by B with a title that slugifies to s passes the probe in B's
\* scope with the candidate s, the insert violates the unique index on slug,
\* add_event raises ConflictError (409), and no Event row is added.
C23_CrossUserSlugConflict ==
    \A a \in events, b \in Users, data \in CoverCreates, file \in {NoFile, Png} :
        (b # a.user_id /\ slugify(data.title) = a.slug
            /\ get_by_slug(events, a.slug, b) = {}) =>
            LET out == add_event(b, file, data, TRUE)
            IN  /\ generate_unique_slug(events, data.title, b) = a.slug
                /\ out.resp.err = "ConflictError" /\ out.resp.status = 409
                /\ out.st.events = events
                /\ get_db(out).events = events
                /\ get_db(out).nextId = nextId

\* C23 witness: the only event is A's, and the add_event of another user
\* with the same title ended with 409
C23_Witness ==
    /\ resp.op = "add_event" /\ resp.status = 409 /\ resp.err = "ConflictError"
    /\ Cardinality(events) = 1
    /\ \E a \in events, b \in Users :
          /\ b # a.user_id
          /\ add_event(b, NoFile, [title |-> a.title, start_at |-> 1, is_published |-> TRUE],
                       TRUE).resp.err = "ConflictError"

\* C24: the slugs of the albums are pairwise distinct after any sequence of
\* create_album, update_album and delete_album by any users, and create_album
\* never raises ConflictError: a title some user has used gets the first free
\* of base, base-1, base-2, ... over the albums of all users.
C24_AlbumSlugsUnique ==
    /\ \A a1, a2 \in albums : a1.slug = a2.slug => a1 = a2
    /\ \A u \in Users, data \in AlbumCreates :
          LET out == create_album(u, data)
              base == slugify(data.title)
          IN  /\ out.resp.err = "none" /\ out.resp.status = 201
              /\ \E row \in out.st.albums \ albums :
                    /\ out.st.albums = albums \cup {row}
                    /\ \A a \in albums : a.slug # row.slug
                    /\ \E k \in 0..Cardinality(albums) :
                          /\ row.slug = Candidate(base, k)
                          /\ \A j \in 0..(k - 1) :
                                \E a \in albums : a.slug = Candidate(base, j)

\* C24 witness: two users each created an album titled "Gig"; the second
\* create returned 201 and the slugs are gig and gig-1
C24_Witness ==
    /\ resp.op = "create_album" /\ resp.status = 201
    /\ \E a1, a2 \in albums :
          /\ a1.user_id # a2.user_id
          /\ a1.title = <<"G", "i", "g">> /\ a2.title = <<"G", "i", "g">>
          /\ a1.slug = <<"g", "i", "g">> /\ a2.slug = <<"g", "i", "g", "-", "1">>

\* C25: a failure of the storage layer inside any repository method, the
\* queries of the feature repositories included, reaches the service as
\* DatabaseError or IntegrityConstraintError and never as the raw exception.
C25_StorageFailuresWrapped ==
    resp.op \in RepositoryMethods =>
        resp.err \in {"DatabaseError", "IntegrityConstraintError"}

\* C25 witness: get_published_by_user fails with OperationalError inside an
\* open session, and OperationalError is what the service receives
C25_Witness ==
    /\ session.pc = "handler"
    /\ resp.op = "get_published_by_user"
    /\ resp.msg = <<"OperationalError">>
    /\ resp.err = "OperationalError"

\* id, slug and user_id of each row of a table
Identity(table) == {[id |-> r.id, slug |-> r.slug, user_id |-> r.user_id] : r \in table}

\* C26: the slug, id and user_id of an Event never change after creation: no
\* step changes the slug or owner of an event that stays, and update_event,
\* whatever the body (a changed title, a slug, id or user_id key), leaves
\* the identities of all events as they were.
C26_EventIdentityFrozen ==
    [][ /\ \A e \in events : \A f \in events' :
              f.id = e.id => (f.slug = e.slug /\ f.user_id = e.user_id)
        /\ resp'.op = "update_event" => Identity(events') = Identity(events) ]_vars

\* C26 witness: update_event answered 200 and an event now titled "gig 1"
\* still has the slug gig that add_event made from its first title
C26_Witness ==
    /\ resp.op = "update_event" /\ resp.status = 200
    /\ \E e \in events :
          /\ e.title = <<"g", "i", "g", " ", "1">>
          /\ e.slug = <<"g", "i", "g">>

AllRows(t) == Table(t) \cup UNION {inflight[r].row : r \in {o \in RequestIds : inflight[o].table = t}}

\* C28: two requests run add_event (or create_album) concurrently, both
\* leave the slug probe with the same candidate before either inserts.  The
\* unique index lets exactly one insert succeed; the other request ends with
\* ConflictError (409) and persists nothing; under every interleaving no two
\* rows of a table, committed or not, share a slug.
C28_ConcurrentSlugRace ==
    /\ \A t \in {"events", "albums"} :
          /\ \A a, b \in AllRows(t) : a.slug = b.slug => a = b
          /\ Cardinality(AllRows(t)) = nextId[t] - 1
    /\ \A r \in RequestIds, o \in RequestIds :
          LET q == inflight[r]
              p == inflight[o]
          IN  (q.rival = o /\ p.rival = r) =>
                 /\ q.table = p.table /\ q.slug = p.slug
                 /\ ~(q.pc \in {"commit", "done"} /\ q.status # 409
                        /\ p.pc \in {"commit", "done"} /\ p.status # 409)
                 /\ (q.pc = "done" /\ q.status = 201 /\ p.pc = "insert") =>
                        flush_insert(o) = "IntegrityError"
                 /\ (q.pc = "done" /\ p.pc = "done") =>
                        /\ {q.status, p.status} = {201, 409}
                        /\ Cardinality({row \in Table(q.table) : row.slug = q.slug}) = 1

\* C28 witness: an event of u1 has the slug gig; two requests of u2 raced
\* for the slug gig and both were answered 409; no event was added
C28_Witness ==
    /\ inflight["r1"].pc = "done" /\ inflight["r2"].pc = "done"
    /\ inflight["r1"].rival = "r2" /\ inflight["r2"].rival = "r1"
    /\ inflight["r1"].table = "events"
    /\ inflight["r1"].slug = <<"g", "i", "g">>
    /\ inflight["r1"].status = 409 /\ inflight["r2"].status = 409
    /\ resp.status = 409 /\ resp.err = "ConflictError"
    /\ \A e \in events : e.user_id = "u1"
    /\ Cardinality({e \in events : e.slug = <<"g", "i", "g">>}) = 1

\* C29: a bulk upload is all-or-nothing in the database and not in storage.
\* When upload_images fails at file k (from 0), the rollback of the session
\* leaves no Image row of the files before k and no change of cover_url,
\* while the objects uploaded for the files before k stay in the bucket: the
\* bucket is the one a successful upload of those k files alone leaves.
C29_UploadRollsBackRowsOnly ==
    \A a \in albums, files \in UploadBatches, fail_at \in 0..2 :
        LET out == upload_images(a.user_id, a.id, files, fail_at)
        IN  out.resp.err # "none" =>
               /\ get_db(out).images = images
               /\ get_db(out).albums = albums
               /\ get_db(out).nextId = nextId
               /\ \E k \in 0..(Len(files) - 1) :
                     LET before == upload_images(a.user_id, a.id, SubSeq(files, 1, k), 0)
                     IN  /\ before.resp.err = "none"
                         /\ Cardinality(before.st.images) = Cardinality(images) + k
                         /\ out.st.images = before.st.images
                         /\ get_db(out).bucket = before.st.bucket
                         /\ bucket \subseteq get_db(out).bucket
                         /\ \A img \in before.st.images \ images :
                               \E file_path \in get_db(out).bucket :
                                  PublicUrl(file_path) = img.image_url

\* C29 witness: the upload of a PNG and a GIF failed at the second file; no
\* image row and no cover exist, and the object of the first file is in
\* the bucket
C29_Witness ==
    /\ resp.op = "upload_images" /\ resp.err = "BadRequestError"
    /\ images = {}
    /\ albums # {} /\ \A a \in albums : a.cover_url = Null
    /\ \E a \in albums : FilePath(a.user_id, "Gallery", slugify(a.title), Png) \in bucket

\* the public images of a user, filtered by the owner of the album
PublishedJoinByAlbumOwner(user_id) ==
    {img \in images : \E a \in albums : /\ a.id = img.album_id
                                         /\ a.is_published
                                         /\ a.user_id = user_id}

\* C30: in every reachable state the user_id of each Image row is the
\* user_id of its Album.  upload_images creates images only in an album of
\* the uploading user (NotFoundError otherwise: no upload, no row), and no
\* step changes the owner of an image or of an album; so filtering public
\* images by Image.user_id equals filtering by the owner of the album.
C30_ImageOwnerIsAlbumOwner ==
    /\ [](/\ \A img \in images :
                \E a \in albums : a.id = img.album_id /\ a.user_id = img.user_id
          /\ \A u \in Users : PublishedJoin(u) = PublishedJoinByAlbumOwner(u)
          /\ \A u \in Users, a \in albums, files \in UploadBatches :
                a.user_id # u =>
                   upload_images(u, a.id, files, 0) = Out(Cur, Raise("NotFoundError")))
    /\ [][ /\ \A a \in albums : \A b \in albums' : b.id = a.id => b.user_id = a.user_id
           /\ \A img \in images : \A j \in images' :
                 j.id = img.id => (j.user_id = img.user_id /\ j.album_id = img.album_id) ]_vars

\* C30 witness: u1 uploaded images into the album of u1, then the upload of
\* another user into that album was answered 404: every image and every
\* object is of u1
C30_Witness ==
    /\ resp.op = "upload_images" /\ resp.status = 404
    /\ images # {}
    /\ \A a \in albums : a.user_id = "u1"
    /\ \A img \in images : img.user_id = "u1" /\ \E a \in albums : a.id = img.album_id
    /\ \A file_path \in bucket : file_path[1] = "u1"

====
